---- MODULE Spec2Model ----
(***************************************************************************)
(* Model of the computational core of stock-ai-hk:                         *)
(*   - BacktestEngine            (src/src/backtesting/backtest_engine.py)  *)
(*   - AnalysisOrchestrator      (src/src/analyzers/analysis_orchestrator) *)
(*   - EnhancedTechnicalAnalyzer, EnhancedSentimentEngine, RiskAssessor    *)
(*                                                                         *)
(* Money is an integer number of currency units.  Percentages that the     *)
(* code rounds to two decimals are integers in hundredths of a percent;    *)
(* scores that the code rounds to one decimal are integers in tenths.      *)
(* The Sharpe ratio (a real number involving a square root) is left out    *)
(* of the backtest record: no decision of the program reads it.            *)
(***************************************************************************)
EXTENDS Integers, Sequences, FiniteSets, TLC

VARIABLES
    \* ---- BacktestEngine.backtest_strategy ----
    bt_pc,              \* "idle" | "loop" | "done"
    df_len,             \* len(df)
    sig_len,            \* len(strategy_signals)
    Close,              \* df['Close'], the bars read so far
    strategy_signals,   \* the signals read so far
    capital,            \* local `capital` (cash)
    shares,             \* local `shares`
    trades,             \* local `trades`
    portfolio_values,   \* local `portfolio_values`
    bt_result,          \* the returned dict
    \* ---- AnalysisOrchestrator.analyze_stock ----
    an_pc,              \* "idle" | "technical" | "tech_insights" | "sentiment"
                        \*   | "risk" | "recommend" | "done"
    price_data,         \* argument price_data (summary of the frame)
    news_data,          \* argument news_data
    technical_analysis, \* local technical_analysis
    technical_insights, \* local technical_insights
    sentiment_analysis, \* local sentiment_analysis
    sentiment_insights, \* local sentiment_insights
    risk_analysis,      \* local risk_analysis
    response,           \* the returned dict
    \* ---- a direct call of _generate_overall_recommendation ----
    rec_args,           \* its three argument dicts
    rec_result,         \* its return value
    \* ---- a direct call of RiskAssessor.calculate_risk_score ----
    risk_args,          \* its arguments
    risk_result,        \* its return value
    \* ---- two calls of analyze_stock with the same arguments ----
    id_args,            \* the arguments of both calls
    id_first,           \* the first call's return value
    id_second,          \* the second call's return value
    \* ---- TechnicalIndicators.analyze_stock, then get_current_signals ----
    ind_pc,             \* "idle" | "analyzed" | "done"
    ind_df,             \* the frame, column name -> values
    ind_signals,        \* what get_current_signals returned
    \* ---- a call of BacktestEngine.generate_signals_from_analysis ----
    sg_pc,              \* "idle" | "done"
    sg_df,              \* its argument df, column name -> values
    sg_signals,         \* the returned series
    \* ---- a call of EnhancedSentimentEngine.calculate_sentiment_score ----
    se_pc,              \* "idle" | "done"
    se_news,            \* its argument news_data
    se_result,          \* the returned dict
    \* ---- a call of RiskAssessor.calculate_support_resistance ----
    sr_prices,          \* its argument prices (summary of the series)
    sr_return,          \* the returned dict
    \* ---- HKStockDataFetcher ----
    fe_now,             \* datetime.now(), in seconds since construction
    fe_waits,           \* how many times the clock has advanced
    fe_calls,           \* how many calls of fetch_stock_data were made
    cache,              \* self.cache: cache key -> (cached_time, cached_data)
    fe_return,          \* the last call: arguments, sources tried, return value
    \* ---- StockAnalysisPipeline.analyze_single_stock ----
    pl_pc,              \* "idle" | "fetched" | "done"
    pl_symbol,          \* argument symbol
    pl_now,             \* datetime.now() at line 36
    pl_price_data,      \* local price_data (summary of the frame)
    pl_orchestrated,    \* whether line 63 called the orchestrator
    pl_raised,          \* where the exception caught at line 72 came from
    pl_results          \* the returned dict

bt_vars == <<bt_pc, df_len, sig_len, Close, strategy_signals, capital, shares,
             trades, portfolio_values, bt_result>>

an_vars == <<an_pc, price_data, news_data, technical_analysis, technical_insights,
             sentiment_analysis, sentiment_insights, risk_analysis, response,
             rec_args, rec_result, risk_args, risk_result>>

id_vars == <<id_args, id_first, id_second>>

ind_vars == <<ind_pc, ind_df, ind_signals>>

sg_vars == <<sg_pc, sg_df, sg_signals>>

se_vars == <<se_pc, se_news, se_result>>

sr_vars == <<sr_prices, sr_return>>

fe_vars == <<fe_now, fe_waits, fe_calls, cache, fe_return>>

pl_vars == <<pl_pc, pl_symbol, pl_now, pl_price_data, pl_orchestrated, pl_raised,
             pl_results>>

aux_vars == <<sr_vars, fe_vars, pl_vars>>

\* The variables of the calls made on a component on its own
ex_vars == <<id_vars, ind_vars, sg_vars, se_vars, aux_vars>>

vars == <<bt_vars, an_vars, ex_vars>>

----------------------------------------------------------------------------
\* Bounds of the model

MaxBars == 4

MaxNews == 3

MaxSignalBars == 3

MaxTrendNews == 7

ScenarioBars == 11

\* How far below and above the last price the window's low and high lie
MaxSpread == 10

\* How many times the clock advances and how many fetches are made
MaxWaits == 3

MaxFetches == 3

Prices == {5000, 30000, 40000, 100000}

Signals == {"BUY", "SELL", "HOLD"}

----------------------------------------------------------------------------
\* Arithmetic helpers

\* Python's round(): round half to even, here of the rational num/den (den > 0)
RoundHalfEven(num, den) ==
    LET q == num \div den
        r == num % den
    IN  IF 2 * r < den THEN q
        ELSE IF 2 * r > den THEN q + 1
        ELSE IF q % 2 = 0 THEN q ELSE q + 1

Max(a, b) == IF a >= b THEN a ELSE b

Min(a, b) == IF a <= b THEN a ELSE b

Last(s) == s[Len(s)]

Abs(x) == IF x < 0 THEN 0 - x ELSE x

----------------------------------------------------------------------------
\* BacktestEngine

initial_capital == 100000

\* ((x - initial_capital) / initial_capital) * 100, rounded to 2 decimals,
\* in hundredths of a percent
ReturnPct(x) == RoundHalfEven(x - initial_capital, initial_capital \div 10000)

NoResult == [pending |-> TRUE]

_default_results ==
    [initial_capital       |-> initial_capital,
     final_value           |-> initial_capital,
     total_return          |-> 0,
     buy_hold_return       |-> 0,
     total_trades          |-> 0,
     win_rate              |-> 0,
     portfolio_values      |-> <<>>,
     trades                |-> <<>>,
     outperformed_buy_hold |-> FALSE]

InputRejected_EmptyOnly(n, m) == n = 0

\* line 21: df.empty or len(strategy_signals) != len(df)
InputRejected(n, m) == n = 0 \/ m # n

BuyGuard_TwoShares(signal, cash, price) == signal = "BUY" /\ cash > 2 * price

\* line 35: signal == 'BUY' and capital > price
BuyGuard(signal, cash, price) == signal = "BUY" /\ cash > price

\* line 37: int(capital / price)
shares_to_buy(cash, price) == cash \div price

\* A SELL executed whatever is held
SellGuard_Always(signal, held) == signal = "SELL"

SellGuard_AnyHolding(signal, held) == signal = "SELL" /\ held >= 0

\* line 50: signal == 'SELL' and shares > 0
SellGuard(signal, held) == signal = "SELL" /\ held > 0

portfolio_value_CashOnly(cash, held, price) == cash

\* line 64: capital + (shares * price)
portfolio_value(cash, held, price) == cash + held * price

\* The benchmark buying fractional shares
buy_hold_value_FractionalShares(first, last) ==
    ((initial_capital \div 100) * last) \div (first \div 100)

buy_hold_value_WithCash(first, last) ==
    ((initial_capital \div first) * last) + (initial_capital % first)

\* lines 72-73: the buy-and-hold benchmark's final value
buy_hold_value(first, last) == (initial_capital \div first) * last

CountAction(log, a) == Cardinality({k \in 1..Len(log) : log[k].action = a})

\* line 81: ZeroDivisionError when a SELL is examined and no BUY was logged
WinRateRaises(log) == CountAction(log, "SELL") > 0 /\ CountAction(log, "BUY") = 0

winning_trades_AboveInitial(log) ==
    Cardinality({k \in 1..Len(log) :
        /\ log[k].action = "SELL"
        /\ log[k].value > initial_capital})

\* line 81: t['value'] > initial_capital / number of BUY trades
winning_trades(log) ==
    Cardinality({k \in 1..Len(log) :
        /\ log[k].action = "SELL"
        /\ log[k].value * CountAction(log, "BUY") > initial_capital})

\* line 82, rounded at line 91, in hundredths of a percent
win_rate(log) ==
    RoundHalfEven(winning_trades(log) * 10000, Max(CountAction(log, "SELL"), 1))

\* lines 68-95: the metrics of a completed pass
ComputedResults(closes, pvs, log) ==
    LET final_value == Last(pvs)
        bh_value    == buy_hold_value(closes[1], Last(closes))
    IN  [initial_capital       |-> initial_capital,
         final_value           |-> final_value,
         total_return          |-> ReturnPct(final_value),
         buy_hold_return       |-> ReturnPct(bh_value),
         total_trades          |-> Len(log),
         win_rate              |-> win_rate(log),
         portfolio_values      |-> pvs,
         trades                |-> log,
         \* line 94 compares the unrounded returns: same order as the values
         outperformed_buy_hold |-> final_value > bh_value]

\* An undefined (NaN) indicator value
NaN == 0 - 1

generate_signals_from_analysis_FromBar0(has_columns, rsi, close, ma_20) ==
    [i \in 1..Len(close) |->
        IF ~has_columns THEN "HOLD"
        ELSE IF rsi[i] # NaN /\ ma_20[i] # NaN /\ rsi[i] < 30 /\ close[i] < ma_20[i]
             THEN "BUY"
        ELSE IF rsi[i] # NaN /\ ma_20[i] # NaN /\ rsi[i] > 70 /\ close[i] > ma_20[i]
             THEN "SELL"
        ELSE "HOLD"]

\* lines 101-121: has_columns is ('RSI' in df and 'MA_20' in df); a comparison
\* with NaN is false
generate_signals_from_analysis(has_columns, rsi, close, ma_20) ==
    [i \in 1..Len(close) |->
        IF ~has_columns \/ i = 1 THEN "HOLD"
        ELSE IF rsi[i] # NaN /\ ma_20[i] # NaN /\ rsi[i] < 30 /\ close[i] < ma_20[i]
             THEN "BUY"
        ELSE IF rsi[i] # NaN /\ ma_20[i] # NaN /\ rsi[i] > 70 /\ close[i] > ma_20[i]
             THEN "SELL"
        ELSE "HOLD"]

BtInit ==
    /\ bt_pc = "idle"
    /\ df_len = 0
    /\ sig_len = 0
    /\ Close = <<>>
    /\ strategy_signals = <<>>
    /\ capital = 0
    /\ shares = 0
    /\ trades = <<>>
    /\ portfolio_values = <<>>
    /\ bt_result = NoResult

\* lines 20-27: the input check and the locals, for a frame of n bars and a
\* signal series of m entries
Call(n, m) ==
    /\ df_len' = n
    /\ sig_len' = m
    /\ IF InputRejected(n, m)
       THEN /\ bt_pc' = "done"
            /\ bt_result' = _default_results
            /\ capital' = capital
       ELSE /\ bt_pc' = "loop"
            /\ bt_result' = bt_result
            /\ capital' = initial_capital

\* lines 20-27: entry
BacktestCall ==
    /\ bt_pc = "idle"
    /\ \E n \in 0..MaxBars, m \in 0..MaxBars : Call(n, m)
    /\ UNCHANGED <<Close, strategy_signals, shares, trades, portfolio_values>>
    /\ UNCHANGED <<an_vars, ex_vars>>

\* lines 29-65: the loop body for the next bar, whose close is `price` and
\* whose signal is `signal`
Bar(price, signal) ==
    LET i == Len(Close)     \* 0-based index of this bar
    IN  IF i >= sig_len
        THEN \* strategy_signals.iloc[i] raises IndexError: lines 97-99
             /\ bt_pc' = "done"
             /\ bt_result' = _default_results
             /\ UNCHANGED <<Close, strategy_signals, capital, shares,
                            trades, portfolio_values>>
        ELSE
          LET buy  == BuyGuard(signal, capital, price)
                         /\ shares_to_buy(capital, price) > 0
              sell == ~BuyGuard(signal, capital, price)
                         /\ SellGuard(signal, shares)
              n    == shares_to_buy(capital, price)
              cash == IF buy THEN capital - n * price
                      ELSE IF sell THEN capital + shares * price
                      ELSE capital
              held == IF buy THEN shares + n
                      ELSE IF sell THEN 0
                      ELSE shares
          IN  /\ Close' = Append(Close, price)
              /\ strategy_signals' = Append(strategy_signals, signal)
              /\ capital' = cash
              /\ shares' = held
              /\ trades' =
                    IF buy THEN Append(trades,
                        [date |-> i, action |-> "BUY", shares |-> n,
                         price |-> price, value |-> n * price])
                    ELSE IF sell THEN Append(trades,
                        [date |-> i, action |-> "SELL", shares |-> shares,
                         price |-> price, value |-> shares * price])
                    ELSE trades
              /\ portfolio_values' =
                    Append(portfolio_values, portfolio_value(cash, held, price))
              /\ UNCHANGED <<bt_pc, bt_result>>

\* lines 29-65: one iteration of the loop over the bars
ProcessBar ==
    /\ bt_pc = "loop"
    /\ Len(Close) < df_len
    /\ \E price \in Prices, signal \in Signals : Bar(price, signal)
    /\ UNCHANGED <<df_len, sig_len>>
    /\ UNCHANGED <<an_vars, ex_vars>>

\* lines 67-99: the metrics and the return (or the except clause)
BacktestReturn ==
    /\ bt_pc = "loop"
    /\ Len(Close) = df_len
    /\ bt_pc' = "done"
    /\ bt_result' =
          IF portfolio_values = <<>> \/ WinRateRaises(trades)
          THEN _default_results   \* IndexError / ZeroDivisionError, lines 97-99
          ELSE ComputedResults(Close, portfolio_values, trades)
    /\ UNCHANGED <<df_len, sig_len, Close, strategy_signals, capital, shares,
                   trades, portfolio_values>>
    /\ UNCHANGED <<an_vars, ex_vars>>

BtNext == BacktestCall \/ ProcessBar \/ BacktestReturn

\* A run on a signal series that is HOLD everywhere except one BUY at bar 5
\* and one SELL at bar 10 (0-based), over ScenarioBars bars
ScenarioSignal(i) == IF i = 5 THEN "BUY" ELSE IF i = 10 THEN "SELL" ELSE "HOLD"

\* The closes a bar of that run may have: the bars of the two trades may
\* also close at the initial capital
ScenarioPrices(i) ==
    IF i \in {5, 10} THEN {40000, 60000, 100000} ELSE {40000, 60000}

\* lines 20-27: entry of that run
ScenarioCall ==
    /\ bt_pc = "idle"
    /\ Call(ScenarioBars, ScenarioBars)
    /\ UNCHANGED <<Close, strategy_signals, shares, trades, portfolio_values>>
    /\ UNCHANGED <<an_vars, ex_vars>>

\* lines 29-65: one iteration of the loop of that run
ScenarioBar ==
    /\ bt_pc = "loop"
    /\ Len(Close) < df_len
    /\ \E price \in ScenarioPrices(Len(Close)) :
          Bar(price, ScenarioSignal(Len(Close)))
    /\ UNCHANGED <<df_len, sig_len>>
    /\ UNCHANGED <<an_vars, ex_vars>>

ScenarioNext == ScenarioCall \/ ScenarioBar \/ BacktestReturn

\* The frames handed to generate_signals_from_analysis: the Close column,
\* with or without an 'RSI' column and the 20-bar average column 'MA_20' the
\* function reads (line 105)
SignalFrame(close, has_rsi, rsi_col, has_ma, ma_col) ==
    IF has_rsi /\ has_ma THEN [Close |-> close, RSI |-> rsi_col, MA_20 |-> ma_col]
    ELSE IF has_rsi THEN [Close |-> close, RSI |-> rsi_col]
    ELSE IF has_ma THEN [Close |-> close, MA_20 |-> ma_col]
    ELSE [Close |-> close]

SgInit ==
    /\ sg_pc = "idle"
    /\ sg_df = [Close |-> <<>>]
    /\ sg_signals = <<>>

\* lines 101-121, on a frame of up to MaxSignalBars bars
GenerateSignalsCall ==
    /\ sg_pc = "idle"
    /\ \E n \in 0..MaxSignalBars, has_rsi \in BOOLEAN, has_ma \in BOOLEAN :
       \E close \in [1..n -> {90, 110}], rsi_col \in [1..n -> {NaN, 20, 30, 80}],
          ma_col \in [1..n -> {NaN, 100}] :
          LET df == SignalFrame(close, has_rsi, rsi_col, has_ma, ma_col)
          IN  /\ sg_df' = df
              /\ sg_signals' =
                    generate_signals_from_analysis(
                        "RSI" \in DOMAIN df /\ "MA_20" \in DOMAIN df,
                        IF "RSI" \in DOMAIN df THEN df.RSI ELSE <<>>,
                        df.Close,
                        IF "MA_20" \in DOMAIN df THEN df.MA_20 ELSE <<>>)
    /\ sg_pc' = "done"
    /\ UNCHANGED <<bt_vars, an_vars, id_vars, ind_vars, se_vars, aux_vars>>

SgNext == GenerateSignalsCall

----------------------------------------------------------------------------
\* Inputs of the analysis.  A price frame is summarised by what the code
\* reads from it: its length, whether the indicator columns were added, the
\* last row's values, and the results of the pandas computations on the
\* Close column.  Units: rsi and scores are plain numbers; volume_ratio and
\* bb_position are in hundredths; macd_histogram and volatility are in units
\* of 0.0001 (the code rounds both to 4 decimals).

symbol == "0700.HK"

EmptyFrame ==
    [bars |-> 0, has_indicators |-> FALSE, last_close |-> 100, prev_close |-> 98,
     sma_20 |-> NaN, rsi |-> NaN, volume_ratio |-> 100, macd_histogram |-> 0,
     bb_position |-> NaN, volatility |-> 0, support |-> 100, resistance |-> 100]

\* Frames shorter than the 20-bar window: the rolling indicators are undefined
ShortFrames ==
    {[EmptyFrame EXCEPT !.bars = n, !.has_indicators = h] :
        n \in {1, 19}, h \in BOOLEAN}

\* Frames of 20 bars whose indicator columns were never computed
RawFrames == {[EmptyFrame EXCEPT !.bars = 20, !.sma_20 = 99, !.rsi = 50,
                                 !.bb_position = 50, !.support = 80]}

FullFrames ==
    {[bars |-> 20, has_indicators |-> TRUE, last_close |-> 100, prev_close |-> 98,
      sma_20 |-> sma, rsi |-> r, volume_ratio |-> vr, macd_histogram |-> h,
      bb_position |-> bb, volatility |-> vol, support |-> sr[1],
      resistance |-> sr[2]] :
        sma \in {90, 99, 110}, r \in {50, 80}, vr \in {100, 250},
        h \in {0 - 5000, 0 - 74, 0, 5000}, bb \in {50, 90}, vol \in {0, 5000},
        sr \in {<<80, 100>>, <<97, 100>>, <<80, 120>>}}

PriceFrames == {EmptyFrame} \cup ShortFrames \cup RawFrames \cup FullFrames

\* TextBlob polarity of an article's text, in hundredths
Polarities == {0 - 100, 15, 100}

Articles == [polarity : Polarities]

SeqsUpTo(S, n) == UNION {[1..k -> S] : k \in 0..n}

NewsBatches == SeqsUpTo(Articles, MaxNews)

\* pd.Timestamp.now()
Clock == {1, 2}

Unset == [unset |-> TRUE]

----------------------------------------------------------------------------
\* TechnicalIndicators (indicators.py)

\* lines 64-66: the RSI_Signal column
RSI_Signal(rsi) ==
    IF rsi # NaN /\ rsi > 70 THEN "Overbought"
    ELSE IF rsi # NaN /\ rsi < 30 THEN "Oversold"
    ELSE "Hold"

\* lines 70-92: kind "none" is the None result, kind "raise" the KeyError of
\* latest['RSI'] on a frame without the indicator columns
get_current_signals(df) ==
    IF df.bars = 0 \/ df.bars < 20 THEN [kind |-> "none"]
    ELSE IF ~df.has_indicators THEN [kind |-> "raise"]
    ELSE [kind |-> "signals",
          RSI |-> [value  |-> IF df.rsi # NaN THEN df.rsi ELSE 50,
                   signal |-> RSI_Signal(df.rsi)],
          Price_vs_SMA |->
              [above    |-> IF df.sma_20 # NaN THEN df.last_close > df.sma_20
                            ELSE FALSE,
               \* ((Close / SMA_20) - 1) * 100, kept as the fraction num/den
               distance |-> IF df.sma_20 # NaN
                            THEN [num |-> (df.last_close - df.sma_20) * 100,
                                  den |-> df.sma_20]
                            ELSE [num |-> 0, den |-> 1]],
          Volume |-> [unusual |-> df.volume_ratio > 200,
                      ratio   |-> df.volume_ratio]]

RECURSIVE SumSeq(_)
SumSeq(s) == IF s = <<>> THEN 0 ELSE s[1] + SumSeq(Tail(s))

\* lines 14-16: prices.rolling(window).mean(), undefined on the first
\* window - 1 rows (the frames below have window sums divisible by window)
sma(prices, window) ==
    [i \in 1..Len(prices) |->
        IF i < window THEN NaN
        ELSE SumSeq(SubSeq(prices, i - window + 1, i)) \div window]

\* lines 18-32.  delta.where(delta > 0, 0) puts 0 where delta is not positive
\* or undefined (row 1), so gain and loss are defined from row `periods` on.
\* With G and L the sums of the window's rises and falls,
\*   rs = gain / (loss + 1e-10),  rsi = 100 - 100 / (1 + rs):
\* G = 0 gives rs = 0 and rsi = 0 whatever L is (0 included); otherwise
\* rsi = 100 * G / (G + L) up to the 1e-10 (under 1e-7 of a point), rounded
\* down to the whole point.  On the frames below the last row's value is a
\* whole number, and no earlier row lies strictly between 70 and 71.
rsi(prices, periods) ==
    LET up(i)   == IF i > 1 /\ prices[i] > prices[i - 1]
                   THEN prices[i] - prices[i - 1] ELSE 0
        down(i) == IF i > 1 /\ prices[i] < prices[i - 1]
                   THEN prices[i - 1] - prices[i] ELSE 0
        G(i)    == SumSeq([k \in 1..periods |-> up(i - periods + k)])
        L(i)    == SumSeq([k \in 1..periods |-> down(i - periods + k)])
    IN  [i \in 1..Len(prices) |->
            IF i < periods THEN NaN
            ELSE IF G(i) = 0 THEN 0
            ELSE (100 * G(i)) \div (G(i) + L(i))]

\* lines 34-47: volume / volume.rolling(window).mean() in hundredths, and
\* whether it exceeds 2; both undefined (NaN, False) on the first rows
volume_analysis(volume, window) ==
    LET avg_sum(i) == SumSeq(SubSeq(volume, i - window + 1, i))
    IN  [volume_ratio |->
            [i \in 1..Len(volume) |->
                IF i < window THEN NaN
                ELSE (100 * window * volume[i]) \div avg_sum(i)],
         unusual_days |->
            [i \in 1..Len(volume) |->
                i >= window /\ window * volume[i] > 2 * avg_sum(i)]]

\* lines 49-68: the frame with the five indicator columns added
TechnicalIndicators_analyze_stock(df) ==
    LET vol_analysis == volume_analysis(df.Volume, 20)
        rsi_col      == rsi(df.Close, 14)
    IN  [SMA_20         |-> sma(df.Close, 20),
         RSI            |-> rsi_col,
         Volume_Ratio   |-> vol_analysis.volume_ratio,
         Unusual_Volume |-> vol_analysis.unusual_days,
         RSI_Signal     |-> [i \in 1..Len(df.Close) |-> RSI_Signal(rsi_col[i])]]
        @@ df

\* line 75: latest = df.iloc[-1], as the summary get_current_signals reads
LatestRow(df) ==
    LET n == Len(df.Close)
    IN  IF n = 0 THEN EmptyFrame
        ELSE [EmptyFrame EXCEPT
                !.bars           = n,
                !.has_indicators = {"RSI", "SMA_20"} \subseteq DOMAIN df,
                !.last_close     = df.Close[n],
                !.prev_close     = IF n > 1 THEN df.Close[n - 1] ELSE df.Close[n],
                !.sma_20         = IF "SMA_20" \in DOMAIN df THEN df.SMA_20[n] ELSE NaN,
                !.rsi            = IF "RSI" \in DOMAIN df THEN df.RSI[n] ELSE NaN,
                !.volume_ratio   = IF "Volume_Ratio" \in DOMAIN df
                                   THEN df.Volume_Ratio[n] ELSE 100]

\* The price series handed to the indicator library: n bars that stay flat,
\* rise or fall by `step` a bar, or alternate between two closes
SeriesLens == {1, 19, 20, 25}

Shapes == {"flat", "rising", "falling", "zigzag"}

CloseSeries(n, shape, base, step) ==
    [i \in 1..n |->
        IF shape = "rising" THEN base + step * i
        ELSE IF shape = "falling" THEN base - step * i
        ELSE IF shape = "zigzag" THEN base + step * (i % 2)
        ELSE base]

\* a constant volume, or one that triples on the last bar
VolumeSeries(n, spike) == [i \in 1..n |-> IF spike /\ i = n THEN 3000 ELSE 1000]

IndicatorFrames ==
    {[Close  |-> CloseSeries(n, shape, base, step),
      Volume |-> VolumeSeries(n, spike)] :
        n \in SeriesLens, shape \in Shapes, base \in {200, 300},
        step \in {2, 4}, spike \in BOOLEAN}

IndInit ==
    /\ ind_pc = "idle"
    /\ ind_df = [Close |-> <<>>, Volume |-> <<>>]
    /\ ind_signals = Unset

\* lines 49-68 on a frame of closes and volumes
IndicatorsAnalyze ==
    /\ ind_pc = "idle"
    /\ \E df \in IndicatorFrames :
          ind_df' = TechnicalIndicators_analyze_stock(df)
    /\ ind_pc' = "analyzed"
    /\ UNCHANGED ind_signals
    /\ UNCHANGED <<bt_vars, an_vars, id_vars, sg_vars, se_vars, aux_vars>>

\* lines 70-92 on the frame analyze_stock returned
CurrentSignals ==
    /\ ind_pc = "analyzed"
    /\ ind_signals' = get_current_signals(LatestRow(ind_df))
    /\ ind_pc' = "done"
    /\ UNCHANGED ind_df
    /\ UNCHANGED <<bt_vars, an_vars, id_vars, sg_vars, se_vars, aux_vars>>

IndNext == IndicatorsAnalyze \/ CurrentSignals

----------------------------------------------------------------------------
\* EnhancedTechnicalAnalyzer (technical_analyzer.py)

\* lines 60, 66, 132
TechnicalDefault == [technical_score |-> 500, signal |-> "NEUTRAL", confidence |-> 0]

\* lines 15-29
calculate_macd(df) ==
    [histogram |-> df.macd_histogram,
     trend     |-> IF df.macd_histogram > 0 THEN "bullish" ELSE "bearish"]

\* lines 34-51: a NaN position compares false with both thresholds
calculate_bollinger_bands(df) ==
    [position |-> df.bb_position,
     signal   |-> IF df.bb_position # NaN /\ df.bb_position > 80 THEN "overbought"
                  ELSE IF df.bb_position # NaN /\ df.bb_position < 20 THEN "oversold"
                  ELSE "neutral"]

\* lines 68-100: the weighted composite, in hundredths of a point
WeightedScore(signals, macd_data, bb_data) ==
    LET rsi_score    == 100 - Abs(50 - signals.RSI.value) * 2
        dist         == signals.Price_vs_SMA.distance
        sma_score    == IF Abs(dist.num) < 2 * dist.den THEN 50
                        ELSE IF signals.Price_vs_SMA.above THEN 80 ELSE 20
        volume_score == IF signals.Volume.unusual THEN 30 ELSE 70
        \* 0.20 * (50 + histogram * 1000), histogram in units of 0.0001
        macd_part    == 20 * 50 + 2 * macd_data.histogram
        bb_score     == IF bb_data.signal = "neutral" THEN 50
                        ELSE IF bb_data.signal = "overbought" THEN 30 ELSE 70
    IN  25 * rsi_score + 20 * sma_score + 15 * volume_score + macd_part
          + 20 * bb_score

ClampScore_None(x) == x

\* line 102: max(0, min(100, technical_score)), in hundredths
ClampScore(x) == Max(0, Min(10000, x))

\* lines 105-110
TechnicalSignal(score) ==
    IF score > 7000 THEN "BULLISH"
    ELSE IF score < 3000 THEN "BEARISH"
    ELSE "NEUTRAL"

\* lines 56-132.  technical_score is reported in tenths (round(.., 1));
\* confidence is min(1.0, |score - 50| / 50) as a multiple of 1/5000.
calculate_technical_score(df) ==
    IF df.bars = 0 THEN TechnicalDefault
    ELSE
      LET signals == get_current_signals(df)
      IN  IF signals.kind # "signals" THEN TechnicalDefault
          ELSE
            LET macd_data == calculate_macd(df)
                bb_data   == calculate_bollinger_bands(df)
                score     == ClampScore(WeightedScore(signals, macd_data, bb_data))
            IN  [technical_score |-> RoundHalfEven(score, 10),
                 signal          |-> TechnicalSignal(score),
                 rsi             |-> signals.RSI.value,
                 rsi_signal      |-> signals.RSI.signal,
                 price_vs_sma    |-> [above |-> signals.Price_vs_SMA.above,
                                      distance_pct |-> signals.Price_vs_SMA.distance],
                 volume          |-> signals.Volume,
                 macd            |-> macd_data,
                 bollinger_bands |-> bb_data,
                 confidence      |-> Min(5000, Abs(score - 5000))]

InsightKeys == {"technical_score", "rsi", "rsi_signal", "price_vs_sma", "volume",
                "macd", "bollinger_bands"}

\* lines 138-144: analysis['rsi'] etc. raise KeyError on a snapshot without them
InsightsRaise(analysis) == ~(InsightKeys \subseteq DOMAIN analysis)

\* lines 134-186, for a snapshot that has every key; insights are tags
generate_technical_insights(analysis) ==
    LET score == analysis.technical_score
    IN  << IF score > 800 THEN "strong_bullish"
           ELSE IF score > 600 THEN "moderately_bullish"
           ELSE IF score < 200 THEN "strong_bearish"
           ELSE IF score < 400 THEN "moderately_bearish"
           ELSE "mixed_or_neutral" >>
        \o (IF analysis.rsi_signal = "Overbought" THEN <<"rsi_overbought">>
            ELSE IF analysis.rsi_signal = "Oversold" THEN <<"rsi_oversold">>
            ELSE <<>>)
        \o (IF analysis.price_vs_sma.above THEN <<"above_sma">> ELSE <<"below_sma">>)
        \o (IF analysis.volume.unusual THEN <<"unusual_volume">> ELSE <<>>)
        \o (IF analysis.macd.trend = "bullish" THEN <<"macd_bullish">>
            ELSE IF analysis.macd.trend = "bearish" THEN <<"macd_bearish">>
            ELSE <<>>)
        \o (IF analysis.bollinger_bands.signal = "overbought" THEN <<"bb_upper">>
            ELSE IF analysis.bollinger_bands.signal = "oversold" THEN <<"bb_lower">>
            ELSE <<>>)

----------------------------------------------------------------------------
\* SentimentAnalyzer (sentiment_analyzer.py)

RECURSIVE SumScores(_)
SumScores(s) == IF s = <<>> THEN 0 ELSE s[1].sentiment_score + SumScores(Tail(s))

\* lines 42-48: the per-article label, thresholds at +-0.1
sentiment_label(score) ==
    IF score > 10 THEN "positive"
    ELSE IF score < 0 - 10 THEN "negative"
    ELSE "neutral"

\* line 55: article.get('source', {}).  A source is "dict" ({'name': ..}),
\* "empty_dict" ({}), "empty_str" ('') or "None"; an article record without
\* the field is a dict without the key.
article_source(article) ==
    IF "source" \in DOMAIN article THEN article.source ELSE "empty_dict"

\* line 55: .get('name', 'Unknown') raises AttributeError on a source that
\* is not a dict
SourceRaises(article) == article_source(article) \notin {"dict", "empty_dict"}

\* line 55, on a dict
source_name(article) ==
    IF article_source(article) = "dict" THEN "Reuters" ELSE "Unknown"

\* lines 36-56: some article of the batch raises
AnalyzeBatchRaises(articles) ==
    \E k \in 1..Len(articles) : SourceRaises(articles[k])

\* lines 32-58, for a batch none of whose articles raises
analyze_news_batch(articles) ==
    [k \in 1..Len(articles) |->
        [sentiment_score |-> articles[k].polarity,
         sentiment_label |-> sentiment_label(articles[k].polarity),
         source          |-> source_name(articles[k])]]

CountLabel(sentiments, l) ==
    Cardinality({k \in 1..Len(sentiments) : sentiments[k].sentiment_label = l})

\* lines 60-93, for a non-empty list; the average is the fraction sum/count
calculate_aggregate_sentiment(sentiments) ==
    [average_score    |-> [sum |-> SumScores(sentiments), count |-> Len(sentiments)],
     positive_count   |-> CountLabel(sentiments, "positive"),
     negative_count   |-> CountLabel(sentiments, "negative"),
     neutral_count    |-> CountLabel(sentiments, "neutral"),
     total_articles   |-> Len(sentiments),
     latest_sentiment |-> sentiments[1].sentiment_label]

----------------------------------------------------------------------------
\* EnhancedSentimentEngine (sentiment_engine.py)

\* lines 19-25 and 68-74
SentimentDefault ==
    [sentiment_score |-> 0, sentiment_trend |-> "neutral", news_count |-> 0,
     confidence |-> 0, signal |-> "NEUTRAL"]

\* lines 32-39
sentiment_trend(analyzed) ==
    LET n      == Len(analyzed)
        recent == SubSeq(analyzed, 1, Min(3, n))
        older  == IF n > 3 THEN SubSeq(analyzed, 4, Min(6, n)) ELSE recent
        r      == SumScores(recent) * Len(older)
        o      == SumScores(older) * Len(recent)
    IN  IF r > o THEN "improving" ELSE IF r < o THEN "deteriorating" ELSE "stable"

\* floor of the square root
ISqrt(k, bound) == CHOOSE r \in 0..bound : r * r <= k /\ k < (r + 1) * (r + 1)

\* line 43: np.std(scores) in hundredths (rounded down), 0 for a single score
score_std(analyzed) ==
    LET n  == Len(analyzed)
        s  == SumScores(analyzed)
        sq == SumScores([k \in 1..n |->
                  [sentiment_score |-> analyzed[k].sentiment_score
                                         * analyzed[k].sentiment_score]])
    IN  IF n > 1 THEN ISqrt(n * sq - s * s, 100 * n) \div n ELSE 0

\* line 44, rounded at line 59: max(0, 1 - std) * min(1, n / 10), in hundredths
sentiment_confidence(analyzed, n) ==
    RoundHalfEven(Max(0, 100 - score_std(analyzed)) * Min(10, n), 10)

\* lines 47-53: the aggregate signal, thresholds at +-0.2
SentimentSignal(avg) ==
    IF avg.sum > 20 * avg.count THEN "POSITIVE"
    ELSE IF avg.sum < (0 - 20) * avg.count THEN "NEGATIVE"
    ELSE "NEUTRAL"

\* lines 16-75.  sentiment_score is reported in thousandths (round(.., 3)).
calculate_sentiment_score(news) ==
    IF news = <<>> THEN SentimentDefault
    ELSE IF AnalyzeBatchRaises(news) THEN SentimentDefault    \* lines 67-75
    ELSE
      LET analyzed == analyze_news_batch(news)
          agg      == calculate_aggregate_sentiment(analyzed)
          avg      == agg.average_score
      IN  [sentiment_score  |-> RoundHalfEven(10 * avg.sum, avg.count),
           sentiment_trend  |-> sentiment_trend(analyzed),
           news_count       |-> Len(news),
           confidence       |-> sentiment_confidence(analyzed, Len(news)),
           signal           |-> SentimentSignal(avg),
           positive_count   |-> agg.positive_count,
           negative_count   |-> agg.negative_count,
           neutral_count    |-> agg.neutral_count,
           latest_sentiment |-> agg.latest_sentiment]

\* The articles handed to the sentiment engine on its own: the polarity of
\* the title and description (0 when both are missing or empty), with the
\* 'source' field missing or holding one of the sources above
SentimentArticles ==
    [polarity : {0 - 100, 0, 100}]
      \cup [polarity : {0 - 100, 0, 100},
            source : {"dict", "empty_dict", "empty_str", "None"}]

SeInit ==
    /\ se_pc = "idle"
    /\ se_news = <<>>
    /\ se_result = Unset

\* lines 16-75 called on a batch of up to MaxNews articles
SentimentCall ==
    /\ se_pc = "idle"
    /\ \E n \in 0..MaxNews : \E news \in [1..n -> SentimentArticles] :
        /\ se_news' = news
        /\ se_result' = calculate_sentiment_score(news)
    /\ se_pc' = "done"
    /\ UNCHANGED <<bt_vars, an_vars, id_vars, ind_vars, sg_vars, aux_vars>>

\* lines 16-75 called on a longer batch, of more than MaxNews and up to
\* MaxTrendNews well-formed articles
SentimentCallLong ==
    /\ se_pc = "idle"
    /\ \E n \in (MaxNews + 1)..MaxTrendNews : \E news \in [1..n -> Articles] :
        /\ se_news' = news
        /\ se_result' = calculate_sentiment_score(news)
    /\ se_pc' = "done"
    /\ UNCHANGED <<bt_vars, an_vars, id_vars, ind_vars, sg_vars, aux_vars>>

SeNext == SentimentCall \/ SentimentCallLong

Get(dict, key, default) == IF key \in DOMAIN dict THEN dict[key] ELSE default

generate_sentiment_insights_NoEarlyReturn(sentiment_data) ==
    <<"no_recent_news", "neutral_sentiment", "limited_coverage">>

\* lines 77-120; insights are tags
generate_sentiment_insights(sentiment_data) ==
    LET trend      == Get(sentiment_data, "sentiment_trend", "neutral")
        news_count == Get(sentiment_data, "news_count", 0)
        signal     == Get(sentiment_data, "signal", "NEUTRAL")
        pos        == Get(sentiment_data, "positive_count", 0)
        neg        == Get(sentiment_data, "negative_count", 0)
        neu        == Get(sentiment_data, "neutral_count", 0)
    IN  IF news_count = 0 THEN <<"no_recent_news">>
        ELSE
          << IF signal = "POSITIVE" THEN "positive_sentiment"
             ELSE IF signal = "NEGATIVE" THEN "negative_sentiment"
             ELSE "neutral_sentiment" >>
          \o (IF trend = "improving" THEN <<"improving">>
              ELSE IF trend = "deteriorating" THEN <<"declining">>
              ELSE <<>>)
          \o (IF news_count > 15 THEN <<"high_coverage">>
              ELSE IF news_count < 3 THEN <<"limited_coverage">>
              ELSE <<>>)
          \o (IF pos > neg /\ pos > neu THEN <<"majority_positive">>
              ELSE IF neg > pos /\ neg > neu THEN <<"majority_negative">>
              ELSE <<>>)

----------------------------------------------------------------------------
\* RiskAssessor (risk_assessor.py)

\* lines 13-24: fewer than 2 returns give 0.0
calculate_volatility(df) == IF df.bars - 1 < 2 THEN 0 ELSE df.volatility

\* lines 26-49 with the resistance test first
calculate_support_resistance_ResistanceFirst(df) ==
    LET current == df.last_close
    IN  IF df.bars = 0
        THEN [support_level |-> 0, resistance_level |-> 0, position |-> "unknown"]
        ELSE
        [support_level    |-> df.support,
         resistance_level |-> df.resistance,
         position |->
            IF (df.resistance - current) * 100 < 5 * current THEN "near_resistance"
            ELSE IF (current - df.support) * 100 < 5 * current
                 THEN "near_support"
            ELSE "mid_range"]

\* lines 26-49: distances as percentages of the current price; on an empty
\* series iloc[-1] raises and the except clause (lines 47-49) answers
calculate_support_resistance(df) ==
    LET current == df.last_close
    IN  IF df.bars = 0
        THEN [support_level |-> 0, resistance_level |-> 0, position |-> "unknown"]
        ELSE
        [support_level    |-> df.support,
         resistance_level |-> df.resistance,
         position |->
            IF (current - df.support) * 100 < 5 * current THEN "near_support"
            ELSE IF (df.resistance - current) * 100 < 5 * current
                 THEN "near_resistance"
            ELSE "mid_range"]

\* A series seen through its last price and the low and high of its trailing
\* window (which holds the last price)
SeriesSummary(bars, current, low, high) ==
    [EmptyFrame EXCEPT !.bars = bars, !.last_close = current,
                       !.support = low, !.resistance = high]

SrInit ==
    /\ sr_prices = Unset
    /\ sr_return = Unset

\* lines 26-49 called on its own
SupportResistanceCall ==
    /\ sr_return = Unset
    /\ \E bars \in {0, 1, 20}, current \in {100, 200} :
       \E low \in (current - MaxSpread)..current,
          high \in current..(current + MaxSpread) :
        /\ bars = 0 => (current = 100 /\ low = current /\ high = current)
        /\ bars = 1 => (low = current /\ high = current)
        /\ sr_prices' = SeriesSummary(bars, current, low, high)
        /\ sr_return' = calculate_support_resistance(sr_prices')
    /\ UNCHANGED <<bt_vars, an_vars, id_vars, ind_vars, sg_vars, se_vars, fe_vars, pl_vars>>

SrNext == SupportResistanceCall

\* The total left unclamped
ClampRisk_None(x) == x

\* line 77: max(0, min(100, total_risk_score)), in hundredths
ClampRisk(x) == Max(0, Min(10000, x))

\* lines 80-91
RiskLevel(total) ==
    IF total < 2500 THEN "LOW"
    ELSE IF total < 5000 THEN "MODERATE"
    ELSE IF total < 7500 THEN "HIGH"
    ELSE "VERY HIGH"

\* lines 82-91
RiskAdvice(level) ==
    IF level = "LOW" THEN "Low risk - Suitable for conservative investors"
    ELSE IF level = "MODERATE" THEN "Moderate risk - Balanced risk-reward profile"
    ELSE IF level = "HIGH" THEN "Elevated risk - Monitor closely"
    ELSE "High risk - Exercise caution"

\* lines 51-102.  technical_score comes in tenths, sentiment_score in
\* thousandths; the components are in hundredths of a point and risk_score
\* is reported in tenths (round(.., 1)).
calculate_risk_score(df, technical_score, sentiment_score) ==
    LET volatility     == calculate_volatility(df)
        sr_levels      == calculate_support_resistance(df)
        vol_score      == Min(4000, volatility * 10)
        tech_risk      == 3000 - 3 * technical_score
        sentiment_risk == Max(0, Min(2000, 1000 - 5 * sentiment_score))
        sr_risk        == IF sr_levels.position = "near_support" THEN 300
                          ELSE IF sr_levels.position = "near_resistance" THEN 800
                          ELSE 500
        total          == ClampRisk(vol_score + tech_risk + sentiment_risk + sr_risk)
    IN  [risk_score              |-> RoundHalfEven(total, 10),
         risk_level              |-> RiskLevel(total),
         volatility_risk         |-> RoundHalfEven(vol_score, 10),
         technical_risk          |-> RoundHalfEven(tech_risk, 10),
         sentiment_risk          |-> RoundHalfEven(sentiment_risk, 10),
         support_resistance_risk |-> sr_risk,
         recommendation          |-> RiskAdvice(RiskLevel(total)),
         volatility              |-> volatility]

----------------------------------------------------------------------------
\* HKStockDataFetcher (data_fetcher.py)

\* line 25
cache_duration == 300

\* timedelta.seconds: the seconds field of a non-negative timedelta, which
\* leaves out its days (line 38)
timedelta_seconds(elapsed) == elapsed % 86400

\* lines 45-49, named as line 57 names them
data_sources == <<"alltick_data", "twelve_data", "yfinance_with_retry">>

FetchSymbols == {"0700.HK", "0005.HK"}

FetchPeriods == {"1mo"}

\* line 33: f"{symbol}_{period}"
cache_key(sym, period) == <<sym, period>>

CacheKeys == {cache_key(sym, period) : sym \in FetchSymbols, period \in FetchPeriods}

NoEntry == [absent |-> TRUE]

\* By how much the clock moves between two calls, in seconds
Delays == {1, 299, 300, 86400}

\* lines 36-38: the key is cached and the entry passes the freshness test
cache_hit(key, now) ==
    /\ cache[key] # NoEntry
    /\ timedelta_seconds(now - cache[key].cached_time) < cache_duration

\* lines 54-59: the sources called in order, up to the first of `available`
\* (the sources that return a non-empty frame)
RECURSIVE sources_tried(_, _)
sources_tried(k, available) ==
    IF k > Len(data_sources) THEN <<>>
    ELSE IF data_sources[k] \in available THEN <<data_sources[k]>>
    ELSE <<data_sources[k]>> \o sources_tried(k + 1, available)

\* lines 51-69: the frame a fresh fetch returns, seen through its
\* data_source attribute and the time it was fetched
fresh_data(key, now, available) ==
    LET tried == sources_tried(1, available)
    IN  [key         |-> key,
         fetched_at  |-> now,
         data_source |-> IF tried # <<>> /\ tried[Len(tried)] \in available
                         THEN tried[Len(tried)] ELSE "fallback"]

FeInit ==
    /\ fe_now = 0
    /\ fe_waits = 0
    /\ fe_calls = 0
    /\ cache = [k \in CacheKeys |-> NoEntry]
    /\ fe_return = Unset

\* Time passes between two calls
Wait ==
    /\ fe_waits < MaxWaits
    /\ \E d \in Delays : fe_now' = fe_now + d
    /\ fe_waits' = fe_waits + 1
    /\ UNCHANGED <<fe_calls, cache, fe_return>>
    /\ UNCHANGED <<bt_vars, an_vars, id_vars, ind_vars, sg_vars, se_vars, sr_vars, pl_vars>>

\* lines 31-74
fetch_stock_data ==
    /\ fe_calls < MaxFetches
    /\ fe_calls' = fe_calls + 1
    /\ \E sym \in FetchSymbols, period \in FetchPeriods,
          available \in SUBSET {data_sources[k] : k \in 1..Len(data_sources)} :
        LET key == cache_key(sym, period)
        IN  IF cache_hit(key, fe_now)
            THEN /\ fe_return' = [key |-> key, now |-> fe_now, prior |-> cache[key],
                                  from_cache |-> TRUE, tried |-> <<>>,
                                  data |-> cache[key].cached_data]
                 /\ cache' = cache
            ELSE LET data == fresh_data(key, fe_now, available)
                 IN  /\ fe_return' = [key |-> key, now |-> fe_now,
                                       prior |-> cache[key], from_cache |-> FALSE,
                                       tried |-> sources_tried(1, available),
                                       data |-> data]
                     /\ cache' = [cache EXCEPT ![key] =
                                     [cached_time |-> fe_now, cached_data |-> data]]
    /\ UNCHANGED <<fe_now, fe_waits>>
    /\ UNCHANGED <<bt_vars, an_vars, id_vars, ind_vars, sg_vars, se_vars, sr_vars, pl_vars>>

FeNext == Wait \/ fetch_stock_data

----------------------------------------------------------------------------
\* AnalysisOrchestrator (analysis_orchestrator.py)

\* lines 65-71, in hundredths of a percent
_calculate_price_change(df) ==
    IF df.bars < 2 THEN 0
    ELSE RoundHalfEven((df.last_close - df.prev_close) * 10000, df.prev_close)

\* lines 73-80: 0.7 * technical + 0.3 * sentiment confidence, rounded to 2
\* decimals, in hundredths (technical confidence is in 1/5000, sentiment
\* confidence in 1/100)
_calculate_confidence(technical, sentiment) ==
    RoundHalfEven(7 * Get(technical, "confidence", 0)
                    + 150 * Get(sentiment, "confidence", 0), 500)

\* The matrix whose BUY rule does not look at the risk level
_generate_overall_recommendation_NoRiskCheck(technical, sentiment, risk) ==
    LET tech_signal      == Get(technical, "signal", "NEUTRAL")
        sentiment_signal == Get(sentiment, "signal", "NEUTRAL")
        risk_level       == Get(risk, "risk_level", "MODERATE")
    IN  IF tech_signal = "BULLISH" /\ sentiment_signal = "POSITIVE"
           /\ risk_level = "LOW"
        THEN "STRONG BUY"
        ELSE IF tech_signal = "BULLISH" /\ sentiment_signal # "NEGATIVE"
        THEN "BUY"
        ELSE IF tech_signal = "BEARISH" /\ sentiment_signal = "NEGATIVE"
        THEN "SELL"
        ELSE IF risk_level = "HIGH" \/ risk_level = "VERY HIGH"
        THEN "HOLD - High risk"
        ELSE IF tech_signal = "NEUTRAL" /\ sentiment_signal = "NEUTRAL"
        THEN "HOLD - Neutral signals"
        ELSE "HOLD - Mixed signals"

_generate_overall_recommendation_RiskFirst(technical, sentiment, risk) ==
    LET tech_signal      == Get(technical, "signal", "NEUTRAL")
        sentiment_signal == Get(sentiment, "signal", "NEUTRAL")
        risk_level       == Get(risk, "risk_level", "MODERATE")
    IN  IF tech_signal = "BULLISH" /\ sentiment_signal = "POSITIVE"
           /\ risk_level = "LOW"
        THEN "STRONG BUY"
        ELSE IF tech_signal = "BULLISH" /\ sentiment_signal # "NEGATIVE"
                /\ risk_level \in {"LOW", "MODERATE"}
        THEN "BUY"
        ELSE IF risk_level = "HIGH" \/ risk_level = "VERY HIGH"
        THEN "HOLD - High risk"
        ELSE IF tech_signal = "BEARISH" /\ sentiment_signal = "NEGATIVE"
        THEN "SELL"
        ELSE IF tech_signal = "NEUTRAL" /\ sentiment_signal = "NEUTRAL"
        THEN "HOLD - Neutral signals"
        ELSE "HOLD - Mixed signals"

\* lines 82-100: the recommendation, named by the leading words of its text
_generate_overall_recommendation(technical, sentiment, risk) ==
    LET tech_signal      == Get(technical, "signal", "NEUTRAL")
        sentiment_signal == Get(sentiment, "signal", "NEUTRAL")
        risk_level       == Get(risk, "risk_level", "MODERATE")
    IN  IF tech_signal = "BULLISH" /\ sentiment_signal = "POSITIVE"
           /\ risk_level = "LOW"
        THEN "STRONG BUY"
        ELSE IF tech_signal = "BULLISH" /\ sentiment_signal # "NEGATIVE"
                /\ risk_level \in {"LOW", "MODERATE"}
        THEN "BUY"
        ELSE IF tech_signal = "BEARISH" /\ sentiment_signal = "NEGATIVE"
        THEN "SELL"
        ELSE IF risk_level = "HIGH" \/ risk_level = "VERY HIGH"
        THEN "HOLD - High risk"
        ELSE IF tech_signal = "NEUTRAL" /\ sentiment_signal = "NEUTRAL"
        THEN "HOLD - Neutral signals"
        ELSE "HOLD - Mixed signals"

\* lines 102-113
_create_error_response(sym, error) ==
    [symbol                 |-> sym,
     error                  |-> error,
     technical_analysis     |-> [technical_score |-> 500, signal |-> "NEUTRAL",
                                 confidence |-> 0],
     sentiment_analysis     |-> [sentiment_score |-> 0, signal |-> "NEUTRAL",
                                 confidence |-> 0],
     risk_analysis          |-> [risk_score |-> 500, risk_level |-> "MODERATE"],
     overall_recommendation |-> "Analysis unavailable",
     technical_insights     |-> <<"technical_unavailable">>,
     sentiment_insights     |-> <<"sentiment_unavailable">>]

\* lines 47-59
CompositeRecord(df, tech, tech_ins, sent, sent_ins, risk, now) ==
    [symbol                 |-> symbol,
     current_price          |-> df.last_close,
     price_change           |-> _calculate_price_change(df),
     technical_analysis     |-> tech,
     technical_insights     |-> tech_ins,
     sentiment_analysis     |-> sent,
     sentiment_insights     |-> sent_ins,
     risk_analysis          |-> risk,
     overall_recommendation |-> _generate_overall_recommendation(tech, sent, risk),
     analysis_timestamp     |-> now,
     confidence_score       |-> _calculate_confidence(tech, sent)]

AnInit ==
    /\ an_pc = "idle"
    /\ price_data = EmptyFrame
    /\ news_data = <<>>
    /\ technical_analysis = Unset
    /\ technical_insights = <<>>
    /\ sentiment_analysis = Unset
    /\ sentiment_insights = <<>>
    /\ risk_analysis = Unset
    /\ response = Unset
    /\ rec_args = Unset
    /\ rec_result = "none"
    /\ risk_args = Unset
    /\ risk_result = Unset

\* lines 18-22: entry and the empty-frame check.  A behaviour follows one
\* call on the orchestrator: analyze_stock, or the decision matrix on its own.
AnalyzeCall ==
    /\ an_pc = "idle"
    /\ rec_args = Unset
    /\ risk_args = Unset
    /\ \E df \in PriceFrames, news \in NewsBatches :
        /\ price_data' = df
        /\ news_data' = news
        /\ IF df.bars = 0
           THEN /\ an_pc' = "done"
                /\ response' = _create_error_response(symbol, "No price data available")
           ELSE /\ an_pc' = "technical"
                /\ response' = response
    /\ UNCHANGED <<technical_analysis, technical_insights, sentiment_analysis,
                   sentiment_insights, risk_analysis, rec_args, rec_result, risk_args, risk_result>>
    /\ UNCHANGED <<bt_vars, ex_vars>>

\* line 24
TechnicalStage ==
    /\ an_pc = "technical"
    /\ technical_analysis' = calculate_technical_score(price_data)
    /\ an_pc' = "tech_insights"
    /\ UNCHANGED <<price_data, news_data, technical_insights, sentiment_analysis,
                   sentiment_insights, risk_analysis, response, rec_args, rec_result, risk_args, risk_result>>
    /\ UNCHANGED <<bt_vars, ex_vars>>

\* line 25; a KeyError is caught at lines 61-63
TechnicalInsightsStage ==
    /\ an_pc = "tech_insights"
    /\ IF InsightsRaise(technical_analysis)
       THEN /\ an_pc' = "done"
            /\ response' = _create_error_response(symbol, "KeyError")
            /\ technical_insights' = technical_insights
       ELSE /\ an_pc' = "sentiment"
            /\ response' = response
            /\ technical_insights' = generate_technical_insights(technical_analysis)
    /\ UNCHANGED <<price_data, news_data, technical_analysis, sentiment_analysis,
                   sentiment_insights, risk_analysis, rec_args, rec_result, risk_args, risk_result>>
    /\ UNCHANGED <<bt_vars, ex_vars>>

\* lines 28-29
SentimentStage ==
    /\ an_pc = "sentiment"
    /\ sentiment_analysis' = calculate_sentiment_score(news_data)
    /\ sentiment_insights' =
          generate_sentiment_insights(calculate_sentiment_score(news_data))
    /\ an_pc' = "risk"
    /\ UNCHANGED <<price_data, news_data, technical_analysis, technical_insights,
                   risk_analysis, response, rec_args, rec_result, risk_args, risk_result>>
    /\ UNCHANGED <<bt_vars, ex_vars>>

\* lines 32-36
RiskStage ==
    /\ an_pc = "risk"
    /\ risk_analysis' = calculate_risk_score(price_data,
                            technical_analysis.technical_score,
                            sentiment_analysis.sentiment_score)
    /\ an_pc' = "recommend"
    /\ UNCHANGED <<price_data, news_data, technical_analysis, technical_insights,
                   sentiment_analysis, sentiment_insights, response, rec_args,
                   rec_result, risk_args, risk_result>>
    /\ UNCHANGED <<bt_vars, ex_vars>>

\* lines 39-59
RecommendAndReturn ==
    /\ an_pc = "recommend"
    /\ \E now \in Clock :
        response' = CompositeRecord(price_data, technical_analysis,
                        technical_insights, sentiment_analysis, sentiment_insights,
                        risk_analysis, now)
    /\ an_pc' = "done"
    /\ UNCHANGED <<price_data, news_data, technical_analysis, technical_insights,
                   sentiment_analysis, sentiment_insights, risk_analysis, rec_args,
                   rec_result, risk_args, risk_result>>
    /\ UNCHANGED <<bt_vars, ex_vars>>

\* The dicts _generate_overall_recommendation may be handed: with or without
\* the key it reads
TechnicalDicts == {[signal |-> x] : x \in {"BULLISH", "NEUTRAL", "BEARISH"}}
                    \cup {[confidence |-> 0]}

SentimentDicts == {[signal |-> x] : x \in {"POSITIVE", "NEUTRAL", "NEGATIVE"}}
                    \cup {[confidence |-> 0]}

RiskDicts == {[risk_level |-> x] : x \in {"LOW", "MODERATE", "HIGH", "VERY HIGH"}}
                \cup {[risk_score |-> 500]}

\* lines 82-100 called on its own
RecommendCall ==
    /\ rec_args = Unset
    /\ risk_args = Unset
    /\ an_pc = "idle"
    /\ \E t \in TechnicalDicts, s \in SentimentDicts, r \in RiskDicts :
        /\ rec_args' = [technical |-> t, sentiment |-> s, risk |-> r]
        /\ rec_result' = _generate_overall_recommendation(t, s, r)
    /\ UNCHANGED <<an_pc, price_data, news_data, technical_analysis,
                   technical_insights, sentiment_analysis, sentiment_insights,
                   risk_analysis, response, risk_args, risk_result>>
    /\ UNCHANGED <<bt_vars, ex_vars>>

\* Scores a caller may hand to calculate_risk_score, in and out of range:
\* technical_score in tenths, sentiment_score in thousandths
TechnicalScoreArgs == {0 - 2000, 0, 245, 500, 668, 1000, 3000}

SentimentScoreArgs == {0 - 5000, 0 - 1000, 0, 1000, 5000}

\* risk_assessor.py lines 51-102 called on its own
RiskCall ==
    /\ rec_args = Unset
    /\ risk_args = Unset
    /\ an_pc = "idle"
    /\ \E df \in PriceFrames, ts \in TechnicalScoreArgs, ss \in SentimentScoreArgs :
        /\ df.bars > 0
        /\ risk_args' = [prices |-> df, technical_score |-> ts,
                         sentiment_score |-> ss]
        /\ risk_result' = calculate_risk_score(df, ts, ss)
    /\ UNCHANGED <<an_pc, price_data, news_data, technical_analysis,
                   technical_insights, sentiment_analysis, sentiment_insights,
                   risk_analysis, response, rec_args, rec_result>>
    /\ UNCHANGED <<bt_vars, ex_vars>>

AnNext ==
    \/ AnalyzeCall
    \/ TechnicalStage
    \/ TechnicalInsightsStage
    \/ SentimentStage
    \/ RiskStage
    \/ RecommendAndReturn
    \/ RecommendCall
    \/ RiskCall

----------------------------------------------------------------------------
\* Two calls of analyze_stock with the same arguments

\* analysis_orchestrator.py lines 18-63: the whole of one call; `now` is what
\* pd.Timestamp.now() returns at line 57
analyze_stock(df, news, now) ==
    IF df.bars = 0
    THEN _create_error_response(symbol, "No price data available")
    ELSE
      LET tech == calculate_technical_score(df)
      IN  IF InsightsRaise(tech)
          THEN _create_error_response(symbol, "KeyError")
          ELSE
            LET tech_ins == generate_technical_insights(tech)
                sent     == calculate_sentiment_score(news)
                sent_ins == generate_sentiment_insights(sent)
                risk     == calculate_risk_score(df, tech.technical_score,
                                                 sent.sentiment_score)
            IN  CompositeRecord(df, tech, tech_ins, sent, sent_ins, risk, now)

IdInit ==
    /\ id_args = Unset
    /\ id_first = Unset
    /\ id_second = Unset

\* the first call
FirstCall ==
    /\ id_args = Unset
    /\ \E df \in PriceFrames, news \in NewsBatches, now \in Clock :
        /\ id_args' = [price_data |-> df, news_data |-> news]
        /\ id_first' = analyze_stock(df, news, now)
    /\ UNCHANGED id_second
    /\ UNCHANGED <<bt_vars, an_vars, ind_vars, sg_vars, se_vars, aux_vars>>

\* the second call, on the same orchestrator with the same arguments
SecondCall ==
    /\ id_args # Unset
    /\ id_second = Unset
    /\ \E now \in Clock :
        id_second' = analyze_stock(id_args.price_data, id_args.news_data, now)
    /\ UNCHANGED <<id_args, id_first>>
    /\ UNCHANGED <<bt_vars, an_vars, ind_vars, sg_vars, se_vars, aux_vars>>

IdNext == FirstCall \/ SecondCall

----------------------------------------------------------------------------
\* StockAnalysisPipeline (analysis_pipeline.py)

\* data_fetcher.py lines 14-29: the attributes __init__ gives the fetcher
fetcher_attributes ==
    {"stocks", "cache", "cache_duration", "alltick_key", "twelve_data_key"}

\* data_fetcher.py lines 15-21, for the symbols of the model
stocks == [s \in {"0700.HK", "0005.HK"} |->
              IF s = "0700.HK" THEN "Tencent" ELSE "HSBC"]

PipelineSymbols == {"0700.HK", "0005.HK", "XXXX.HK"}

\* analysis_pipeline.py lines 33-39
base_results(sym, now) ==
    [symbol        |-> sym,
     name          |-> IF sym \in DOMAIN stocks THEN stocks[sym] ELSE sym,
     timestamp     |-> now,
     has_real_data |-> FALSE,
     data_source   |-> "unknown"]

\* r1 updated with r2 (dict.update)
Update(r1, r2) ==
    [k \in DOMAIN r1 \cup DOMAIN r2 |-> IF k \in DOMAIN r2 THEN r2[k] ELSE r1[k]]

\* lines 161-188, the fields the frontend reads
_create_default_results(base) ==
    Update(base,
        [price |-> 0, technical_score |-> 500, technical_signal |-> "NEUTRAL",
         risk_score |-> 500, risk_level |-> "MODERATE",
         ai_recommendation |-> "No data available for analysis",
         confidence_score |-> 0, recommendation |-> "NO DATA",
         has_real_data |-> FALSE, data_source |-> "none"])

\* lines 190-215, the fields the frontend reads
_create_error_results ==
    [price |-> 0, technical_score |-> 500, technical_signal |-> "NEUTRAL",
     risk_score |-> 500, risk_level |-> "MODERATE",
     ai_recommendation |-> "Analysis error occurred",
     confidence_score |-> 0, recommendation |-> "ERROR",
     has_real_data |-> FALSE, data_source |-> "error"]

\* lines 133-159: the legacy label of 0.6 * (technical_score - 50) / 50
\* + 0.4 * sentiment_score against +-0.3, on simulated data or not
_generate_legacy_recommendation(technical, sentiment, has_real_data) ==
    LET combined == 12 * (Get(technical, "technical_score", 500) - 500)
                        + 4 * Get(sentiment, "sentiment_score", 0)
        label    == IF combined > 3000 THEN "BULLISH"
                    ELSE IF combined < 0 - 3000 THEN "BEARISH"
                    ELSE "NEUTRAL"
    IN  [label |-> label, simulated |-> ~has_real_data]

\* lines 78-131, for a fetcher whose is_railway attribute is `is_railway`
_map_analysis_to_frontend_format(analysis_result, is_railway) ==
    LET technical == Get(analysis_result, "technical_analysis", <<>>)
        sentiment == Get(analysis_result, "sentiment_analysis", <<>>)
        risk      == Get(analysis_result, "risk_analysis", <<>>)
    IN  [price             |-> Get(analysis_result, "current_price", 0),
         has_real_data     |-> ~is_railway,
         technical_score   |-> Get(technical, "technical_score", 500),
         technical_signal  |-> Get(technical, "signal", "NEUTRAL"),
         risk_score        |-> Get(risk, "risk_score", 500),
         risk_level        |-> Get(risk, "risk_level", "MODERATE"),
         ai_recommendation |-> Get(analysis_result, "overall_recommendation",
                                   "Analysis unavailable"),
         confidence_score  |-> Get(analysis_result, "confidence_score", 0),
         recommendation    |->
             _generate_legacy_recommendation(technical, sentiment, ~is_railway)]

\* The frames fetch_stock_data returns: never empty (the fallback has 31
\* rows), with the fetcher's own columns and none of TechnicalIndicators'
FetchedFrames ==
    {[EmptyFrame EXCEPT !.bars = n, !.last_close = c] :
        n \in {1, 19, 20, 31}, c \in {98, 100, 320}}

\* lines 44-76 of analyze_single_stock: what is returned, whether the
\* orchestrator was called and where the exception caught at line 72 arose.
\* Lines 49-50 read self.fetcher.is_railway.
analyze_single_stock(sym, df, news, now) ==
    IF df.bars = 0
    THEN [results      |-> _create_default_results(base_results(sym, now)),
          orchestrated |-> FALSE, raised |-> "none"]
    ELSE IF "is_railway" \notin fetcher_attributes
    THEN \* AttributeError at line 49, caught at line 72
         [results      |-> Update(base_results(sym, now), _create_error_results),
          orchestrated |-> FALSE, raised |-> "line 49"]
    ELSE LET tracked == Update(base_results(sym, now),
                               [data_source |-> "yfinance", has_real_data |-> TRUE])
             analysis_result == analyze_stock(df, news, now)
         IN  [results      |-> Update(tracked,
                                 _map_analysis_to_frontend_format(analysis_result,
                                                                  FALSE)),
              orchestrated |-> TRUE, raised |-> "none"]

PlInit ==
    /\ pl_pc = "idle"
    /\ pl_symbol = symbol
    /\ pl_now = 1
    /\ pl_price_data = EmptyFrame
    /\ pl_orchestrated = FALSE
    /\ pl_raised = "none"
    /\ pl_results = Unset

\* lines 28-43: the call, the initial results and the fetch
PipelineFetch ==
    /\ pl_pc = "idle"
    /\ \E sym \in PipelineSymbols, now \in Clock, df \in FetchedFrames :
        /\ pl_symbol' = sym
        /\ pl_now' = now
        /\ pl_price_data' = df
    /\ pl_pc' = "fetched"
    /\ UNCHANGED <<pl_orchestrated, pl_raised, pl_results>>
    /\ UNCHANGED <<bt_vars, an_vars, id_vars, ind_vars, sg_vars, se_vars, sr_vars,
                   fe_vars>>

\* lines 44-76: source tracking, news, orchestrator, mapping, return
PipelineAnalyze ==
    /\ pl_pc = "fetched"
    /\ \E news \in NewsBatches :
        LET out == analyze_single_stock(pl_symbol, pl_price_data, news, pl_now)
        IN  /\ pl_results' = out.results
            /\ pl_orchestrated' = out.orchestrated
            /\ pl_raised' = out.raised
    /\ pl_pc' = "done"
    /\ UNCHANGED <<pl_symbol, pl_now, pl_price_data>>
    /\ UNCHANGED <<bt_vars, an_vars, id_vars, ind_vars, sg_vars, se_vars, sr_vars,
                   fe_vars>>

PlNext == PipelineFetch \/ PipelineAnalyze

ExInit == IdInit /\ IndInit /\ SgInit /\ SeInit /\ SrInit /\ FeInit /\ PlInit

Init == BtInit /\ AnInit /\ ExInit

Next == BtNext

Spec == Init /\ [][Next]_vars

AnalysisNext == AnNext

SpecAnalysis == Init /\ [][AnalysisNext]_vars

ScenarioDNext == ScenarioNext

SpecScenarioD == Init /\ [][ScenarioDNext]_vars

SignalsNext == SgNext

SpecSignals == Init /\ [][SignalsNext]_vars

SentimentNext == SeNext

SpecSentiment == Init /\ [][SentimentNext]_vars

SupportResistanceNext == SrNext

SpecSupportResistance == Init /\ [][SupportResistanceNext]_vars

PipelineNext == PlNext

SpecPipeline == Init /\ [][PipelineNext]_vars

FetcherNext == FeNext

SpecFetcher == Init /\ [][FetcherNext]_vars

IndicatorsNext == IndNext

SpecIndicators == Init /\ [][IndicatorsNext]_vars

IdempotenceNext == IdNext

SpecIdempotence == Init /\ [][IdempotenceNext]_vars


----------------------------------------------------------------------------
\* Claims about the backtest simulator (specification Spec)

\* A step of ProcessBar that read one more bar
BarStep == bt_pc = "loop" /\ Len(Close') = Len(Close) + 1

\* C1: after every processed bar the value recorded for that bar is
\* cash + shares_held * close of that bar, and cash and shares_held are
\* never negative.
C1_PortfolioIdentity ==
    /\ capital >= 0
    /\ shares >= 0
    /\ Len(portfolio_values) = Len(Close)
    /\ Len(Close) > 0 =>
          Last(portfolio_values) = capital + shares * Last(Close)

C1_Witness ==
    /\ Len(Close) >= 2
    /\ shares > 0
    /\ capital > 0
    /\ Len(trades) >= 2

\* C2 (as claimed): on a BUY bar the simulator buys exactly when
\* cash >= price, then buys floor(cash/price) shares, debits their cost,
\* credits the shares and appends one BUY trade; otherwise nothing executes.
C2_BuyIffAffordable ==
    [][(BarStep /\ Last(strategy_signals') = "BUY") =>
        LET p == Last(Close')
        IN  IF capital >= p
            THEN /\ shares' = shares + (capital \div p)
                 /\ capital' = capital - (capital \div p) * p
                 /\ Len(trades') = Len(trades) + 1
                 /\ Last(trades').action = "BUY"
            ELSE UNCHANGED <<capital, shares, trades>>]_vars

\* C3: on a SELL bar the simulator sells only if shares_held > 0, and then
\* sells the whole holding at the close: cash grows by shares*price, the
\* holding becomes 0 and one SELL trade recording the prior holding is
\* appended; with no holding a SELL signal changes nothing.
C3_SellAllOrNothing ==
    [][(BarStep /\ Last(strategy_signals') = "SELL") =>
        LET p == Last(Close')
        IN  IF shares > 0
            THEN /\ capital' = capital + shares * p
                 /\ shares' = 0
                 /\ trades' = Append(trades,
                        [date |-> Len(Close), action |-> "SELL",
                         shares |-> shares, price |-> p, value |-> shares * p])
            ELSE UNCHANGED <<capital, shares, trades>>]_vars

C3_Witness ==
    /\ Len(trades) >= 2
    /\ Last(trades).action = "SELL"
    /\ Last(trades).shares > 0
    /\ Last(strategy_signals) = "SELL"
    /\ shares = 0

\* C4: an empty price series, or a signal series whose length differs from
\* the price series', yields the zero-activity default record; every return
\* path returns a record.
C4_RejectedInputDefault ==
    bt_pc = "done" =>
        /\ bt_result # NoResult
        /\ (df_len = 0 \/ sig_len # df_len) => bt_result = _default_results

C4_Witness ==
    /\ bt_pc = "done"
    /\ df_len > 0
    /\ sig_len > df_len
    /\ bt_result = _default_results

\* The run of a single bar with the one signal generated for it
SingleBarRun ==
    /\ bt_pc = "done"
    /\ df_len = 1
    /\ Len(Close) = 1
    /\ strategy_signals =
          generate_signals_from_analysis(TRUE, <<NaN>>, Close, <<NaN>>)

----------------------------------------------------------------------------
\* Claims about the analysis (specification SpecAnalysis)

\* analyze_stock returned the composite record, not the error record
ReturnedNormally == an_pc = "done" /\ "error" \notin DOMAIN response

\* The ordered decision matrix as a list of rules
MatrixRules(t, s, r) ==
    << [cond |-> t = "BULLISH" /\ s = "POSITIVE" /\ r = "LOW",
        outcome |-> "STRONG BUY"],
       [cond |-> t = "BULLISH" /\ s # "NEGATIVE" /\ r \in {"LOW", "MODERATE"},
        outcome |-> "BUY"],
       [cond |-> t = "BEARISH" /\ s = "NEGATIVE",
        outcome |-> "SELL"],
       [cond |-> r \in {"HIGH", "VERY HIGH"},
        outcome |-> "HOLD - High risk"],
       [cond |-> t = "NEUTRAL" /\ s = "NEUTRAL",
        outcome |-> "HOLD - Neutral signals"],
       [cond |-> TRUE,
        outcome |-> "HOLD - Mixed signals"] >>

FirstMatch(t, s, r) ==
    LET rules == MatrixRules(t, s, r)
        first == CHOOSE k \in 1..Len(rules) :
                    rules[k].cond /\ \A j \in 1..(k - 1) : ~rules[j].cond
    IN  rules[first].outcome

\* C6: for every technical signal, sentiment signal and risk level the
\* recommendation is the outcome of the first matching rule of the ordered
\* matrix (STRONG BUY, BUY, SELL at any risk, HOLD high risk, HOLD neutral,
\* HOLD mixed), both when the matrix is called on its own and inside
\* analyze_stock.
C6_FirstMatchWins ==
    /\ (/\ rec_args # Unset
        /\ "signal" \in DOMAIN rec_args.technical
        /\ "signal" \in DOMAIN rec_args.sentiment
        /\ "risk_level" \in DOMAIN rec_args.risk) =>
            rec_result = FirstMatch(rec_args.technical.signal,
                                    rec_args.sentiment.signal,
                                    rec_args.risk.risk_level)
    /\ ReturnedNormally =>
            response.overall_recommendation =
                FirstMatch(response.technical_analysis.signal,
                           response.sentiment_analysis.signal,
                           response.risk_analysis.risk_level)

C6_Witness ==
    /\ rec_args # Unset
    /\ rec_args.technical = [signal |-> "BEARISH"]
    /\ rec_args.sentiment = [signal |-> "NEGATIVE"]
    /\ rec_args.risk = [risk_level |-> "VERY HIGH"]
    /\ rec_result = "SELL"

CompositeKeys ==
    {"symbol", "current_price", "price_change", "technical_analysis",
     "technical_insights", "sentiment_analysis", "sentiment_insights",
     "risk_analysis", "overall_recommendation", "confidence_score"}

\* C7 (as claimed): every record analyze_stock returns, on the normal path
\* and on every failure path, carries symbol, current_price, price change,
\* technical score/signal/insights, sentiment score/signal/insights, risk
\* score/level, overall_recommendation and confidence_score.
C7_AlwaysWellFormed ==
    an_pc = "done" =>
        /\ CompositeKeys \subseteq DOMAIN response
        /\ {"technical_score", "signal"} \subseteq DOMAIN response.technical_analysis
        /\ {"sentiment_score", "signal"} \subseteq DOMAIN response.sentiment_analysis
        /\ {"risk_score", "risk_level"} \subseteq DOMAIN response.risk_analysis

\* C8 (as claimed): for a non-empty series of fewer than 20 bars the
\* technical stage yields the neutral default and analyze_stock goes on
\* through insights, sentiment, risk and the decision matrix: the record it
\* returns is not the error record.
C8_ShortSeriesRecovered ==
    (an_pc = "done" /\ price_data.bars > 0 /\ price_data.bars < 20) =>
        /\ technical_analysis = TechnicalDefault
        /\ ReturnedNormally

\* C9: every returned technical_score and risk_score lies in [0,100], every
\* sentiment_score in [-1,1] and every confidence (technical, sentiment,
\* composite) in [0,1], whatever the indicator values and whatever scores
\* the risk assessor is handed.
C9_ScoresInRange ==
    /\ technical_analysis # Unset =>
          /\ technical_analysis.technical_score \in 0..1000
          /\ technical_analysis.confidence \in 0..5000
    /\ sentiment_analysis # Unset =>
          /\ sentiment_analysis.sentiment_score \in (0 - 1000)..1000
          /\ sentiment_analysis.confidence \in 0..100
    /\ risk_analysis # Unset => risk_analysis.risk_score \in 0..1000
    /\ risk_result # Unset => risk_result.risk_score \in 0..1000
    /\ an_pc = "done" =>
          /\ response.technical_analysis.technical_score \in 0..1000
          /\ response.technical_analysis.confidence \in 0..5000
          /\ response.sentiment_analysis.sentiment_score \in (0 - 1000)..1000
          /\ response.sentiment_analysis.confidence \in 0..100
          /\ response.risk_analysis.risk_score \in 0..1000
          /\ "confidence_score" \in DOMAIN response =>
                response.confidence_score \in 0..100

\* the clamp of the technical score was needed, and a composite was returned
C9_Witness ==
    /\ ReturnedNormally
    /\ WeightedScore(get_current_signals(price_data), calculate_macd(price_data),
                     calculate_bollinger_bands(price_data)) > 10000
    /\ response.technical_analysis.technical_score = 1000
    /\ response.confidence_score > 0
    /\ Len(news_data) > 1

\* C10: for an empty news batch the sentiment snapshot has score 0, signal
\* NEUTRAL and confidence 0, and the insights are exactly the single
\* 'no recent news coverage' entry.
C10_EmptyNews ==
    (news_data = <<>> /\ sentiment_analysis # Unset) =>
        /\ sentiment_analysis.sentiment_score = 0
        /\ sentiment_analysis.signal = "NEUTRAL"
        /\ sentiment_analysis.confidence = 0
        /\ sentiment_insights = <<"no_recent_news">>

C10_Witness ==
    /\ ReturnedNormally
    /\ news_data = <<>>
    /\ response.sentiment_insights = <<"no_recent_news">>
    /\ response.sentiment_analysis.news_count = 0

----------------------------------------------------------------------------
\* Claims about repeated calls (specification SpecIdempotence)

\* The record the staged run of SpecAnalysis returns is the one analyze_stock
\* computes from the same arguments
StagesAgree ==
    an_pc = "done" =>
        \E now \in Clock : response = analyze_stock(price_data, news_data, now)

\* C11: two calls of analyze_stock with the identical symbol, price series
\* and news batch return identical composite records: no clock, random or
\* hidden instance state influences any field.
C11_IdenticalRecords ==
    id_second # Unset => id_second = id_first

----------------------------------------------------------------------------
\* Claims about the one-BUY one-SELL run (specification SpecScenarioD)

\* C12: given a signal series that is HOLD everywhere except one BUY at bar 5
\* and one SELL at bar 10, with close[5] below the initial capital and
\* close[10] > close[5], the backtest records exactly two trades (the BUY
\* then the SELL), holds zero shares afterwards, and ends with a final value
\* strictly greater than the initial capital.
C12_OneRoundTrip ==
    (bt_pc = "done" /\ Close[6] < initial_capital /\ Close[11] > Close[6]) =>
        /\ bt_result.total_trades = 2
        /\ Len(bt_result.trades) = 2
        /\ bt_result.trades[1].action = "BUY"
        /\ bt_result.trades[1].date = 5
        /\ bt_result.trades[2].action = "SELL"
        /\ bt_result.trades[2].date = 10
        /\ shares = 0
        /\ bt_result.final_value > initial_capital

C12_Witness ==
    /\ bt_pc = "done"
    /\ Close[6] = 60000
    /\ Close[11] = 100000
    /\ bt_result.total_trades = 2
    /\ bt_result.final_value = 140000

----------------------------------------------------------------------------
\* Claims about the indicator library (specification SpecIndicators)

FlatSeries(closes) == \A i \in 1..Len(closes) : closes[i] = closes[1]

\* C13: for a flat price series (25 bars, no movement) the RSI value used by
\* the technical scorer is the neutral value of about 50 produced by the
\* undefined-value guard, not an extreme such as 0 or 100, so the RSI signal
\* is neither Overbought nor Oversold.
C13_FlatSeriesNeutralRSI ==
    (ind_pc = "done" /\ Len(ind_df.Close) = 25 /\ FlatSeries(ind_df.Close)) =>
        /\ Abs(ind_signals.RSI.value - 50) <= 5
        /\ ind_signals.RSI.signal = "Hold"

----------------------------------------------------------------------------
\* Claims about the signal generator (specification SpecSignals)

\* C14: generate_signals_from_analysis assigns bar 0 the signal HOLD and, for
\* every bar i >= 1, BUY iff RSI[i] < 30 and close[i] < SMA20[i], SELL iff
\* RSI[i] > 70 and close[i] > SMA20[i], HOLD otherwise; any bar whose RSI or
\* SMA20 is undefined, and every bar when either column is absent, is HOLD.
\* (SMA20 is the 20-bar average column the function reads, 'MA_20'.)
C14_SignalRule ==
    sg_pc = "done" =>
      LET n   == Len(sg_df.Close)
          has == {"RSI", "MA_20"} \subseteq DOMAIN sg_df
      IN  /\ DOMAIN sg_signals = 1..n
          /\ \A k \in 1..n :      \* k - 1 is the bar's 0-based index
                /\ sg_signals[k] \in {"BUY", "SELL", "HOLD"}
                /\ (k = 1 \/ ~has) => sg_signals[k] = "HOLD"
                /\ (k > 1 /\ has) =>
                      LET defined == sg_df.RSI[k] # NaN /\ sg_df.MA_20[k] # NaN
                      IN  /\ ~defined => sg_signals[k] = "HOLD"
                          /\ sg_signals[k] = "BUY" <=>
                                (defined /\ sg_df.RSI[k] < 30
                                         /\ sg_df.Close[k] < sg_df.MA_20[k])
                          /\ sg_signals[k] = "SELL" <=>
                                (defined /\ sg_df.RSI[k] > 70
                                         /\ sg_df.Close[k] > sg_df.MA_20[k])

C14_Witness ==
    /\ sg_pc = "done"
    /\ sg_signals = <<"HOLD", "BUY", "SELL">>
    /\ sg_df.RSI[1] = 20
    /\ sg_df.Close[1] = 90
    /\ sg_df.MA_20[1] = 100

----------------------------------------------------------------------------
\* Claims about the sentiment engine (specification SpecSentiment)

\* C15: the sentiment scorer processes a news batch in which any article
\* field (title, description, publishedAt, source) is missing or empty
\* without failing: every article yields one SentimentRecord and the
\* returned snapshot's news_count equals the batch size rather than falling
\* back to the zero-news default.
C15_MissingFieldsTolerated ==
    se_pc = "done" => se_result.news_count = Len(se_news)

----------------------------------------------------------------------------
\* Claims about the reported scores (specification SpecAnalysis)

\* C16: in every TechnicalSnapshot returned by calculate_technical_score the
\* signal is BULLISH iff the reported technical_score > 70, BEARISH iff the
\* reported technical_score < 30, and NEUTRAL otherwise (scores of exactly
\* 70 or 30 are NEUTRAL).
C16_SignalMatchesReportedScore ==
    technical_analysis # Unset =>
        /\ technical_analysis.signal = "BULLISH"
              <=> technical_analysis.technical_score > 700
        /\ technical_analysis.signal = "BEARISH"
              <=> technical_analysis.technical_score < 300
        /\ technical_analysis.signal = "NEUTRAL"
              <=> (technical_analysis.technical_score >= 300
                     /\ technical_analysis.technical_score <= 700)

\* C17: in every RiskSnapshot returned by calculate_risk_score, risk_level
\* is LOW iff the reported risk_score < 25, MODERATE iff 25 <= risk_score
\* < 50, HIGH iff 50 <= risk_score < 75, and VERY HIGH iff risk_score >= 75.
C17_LevelMatchesReportedScore ==
    \A r \in {risk_analysis, risk_result} :
        r # Unset =>
            /\ r.risk_level = "LOW" <=> r.risk_score < 250
            /\ r.risk_level = "MODERATE"
                  <=> (r.risk_score >= 250 /\ r.risk_score < 500)
            /\ r.risk_level = "HIGH"
                  <=> (r.risk_score >= 500 /\ r.risk_score < 750)
            /\ r.risk_level = "VERY HIGH" <=> r.risk_score >= 750

----------------------------------------------------------------------------
\* Claims about the win rate (specification Spec)

\* C18: a SELL trade counts as a win iff its proceeds exceed initial_capital
\* divided by the total number of BUY trades of the whole run, and
\* win_rate = 100 * wins / max(number of SELL trades, 1) (reported to two
\* decimals); the computation never divides by zero for any trade log the
\* simulation can produce, logs with no BUY included.
C18_WinRate ==
    LET buys  == Cardinality({k \in 1..Len(trades) : trades[k].action = "BUY"})
        sells == Cardinality({k \in 1..Len(trades) : trades[k].action = "SELL"})
        wins  == Cardinality({k \in 1..Len(trades) :
                    /\ trades[k].action = "SELL"
                    /\ trades[k].value * buys > initial_capital})
        d     == IF sells > 1 THEN sells ELSE 1
    IN  \* the divisor of line 81 is evaluated for a SELL only
        /\ sells > 0 => buys > 0
        \* a pass over all the bars returns the computed metrics
        /\ (bt_pc = "done" /\ df_len > 0 /\ Len(Close) = df_len) =>
              /\ bt_result.trades = trades
              /\ 2 * Abs(bt_result.win_rate * d - 10000 * wins) <= d

C18_Witness ==
    /\ bt_pc = "done"
    /\ Len(bt_result.trades) = 4
    /\ bt_result.trades[2].value = 90000
    /\ bt_result.trades[4].value = 60000
    /\ bt_result.win_rate = 10000

----------------------------------------------------------------------------
\* Claims about the order of the stages (specification SpecAnalysis)

\* C19: within one analyze_stock run the stages are strictly sequential: the
\* indicator computation (RSI, SMA_20, volume-ratio columns) has completed
\* before the technical scorer reads indicator values, and technical
\* scoring, sentiment scoring and risk assessment have all completed before
\* the decision matrix is evaluated.
C19_StagesSequential ==
    \* the technical scorer has read the last row of a frame of 20 bars or more
    /\ (technical_analysis # Unset /\ price_data.bars >= 20) =>
            price_data.has_indicators
    \* the decision matrix has been evaluated
    /\ (an_pc = "done" /\ "analysis_timestamp" \in DOMAIN response) =>
            /\ technical_analysis # Unset
            /\ sentiment_analysis # Unset
            /\ risk_analysis # Unset

----------------------------------------------------------------------------
\* Claims about the sentiment trend (specification SpecSentiment)

\* C20: every SentimentSnapshot returned by calculate_sentiment_score has a
\* trend value in {improving, stable, deteriorating}, including the snapshot
\* for an empty batch and the snapshot returned after an internal exception.
C20_TrendInRange ==
    se_pc = "done" =>
        se_result.sentiment_trend \in {"improving", "stable", "deteriorating"}

\* The sum of the polarities of the articles k of se_news with lo <= k <= hi
RECURSIVE PolaritySum(_, _)
PolaritySum(lo, hi) ==
    IF lo > hi THEN 0 ELSE se_news[lo].polarity + PolaritySum(lo + 1, hi)

\* calculate_sentiment_score returned a computed snapshot
SentimentComputed == se_pc = "done" /\ "latest_sentiment" \in DOMAIN se_result

\* The trend rule: the mean of the first 3 scores against the mean of the
\* next 3 (articles 4 to 6, or as many of them as exist)
TrendRule ==
    LET n      == Len(se_news)
        m      == IF n < 6 THEN n - 3 ELSE 3     \* how many of 4..6 exist
        first  == PolaritySum(1, 3)
        next   == PolaritySum(4, 3 + m)
    IN  IF n <= 3 THEN se_result.sentiment_trend = "stable"
        ELSE \* first / 3 against next / m
             /\ se_result.sentiment_trend = "improving" <=> first * m > next * 3
             /\ se_result.sentiment_trend = "deteriorating" <=> first * m < next * 3
             /\ se_result.sentiment_trend = "stable" <=> first * m = next * 3

\* The rule holds of every snapshot the computation of lines 27-65 returned
TrendRuleWhenComputed == SentimentComputed => TrendRule

\* C21: for a non-empty batch the sentiment trend compares the mean score of
\* the first 3 articles with the mean score of the next 3 (articles 4 to 6,
\* or as many of them as exist): improving if the first mean is greater,
\* deteriorating if smaller, stable on a tie; a batch of at most 3 articles
\* always yields stable.
C21_TrendFirstVsNext ==
    (se_pc = "done" /\ se_news # <<>>) => TrendRule

\* How many articles of the batch have a polarity satisfying the labels'
\* thresholds: positive above 0.1, negative below -0.1, neutral in between
PositiveArticles == {k \in 1..Len(se_news) : se_news[k].polarity > 10}

NegativeArticles == {k \in 1..Len(se_news) : se_news[k].polarity < 0 - 10}

\* The labels' rule (seen through the snapshot's counts) and the signal's
\* rule: the mean polarity against +-0.2
ThresholdRule ==
    LET n   == Len(se_news)
        sum == PolaritySum(1, n)
    IN  /\ se_result.signal = "POSITIVE" <=> sum > 20 * n
        /\ se_result.signal = "NEGATIVE" <=> sum < (0 - 20) * n
        /\ se_result.signal = "NEUTRAL" <=> (sum >= (0 - 20) * n /\ sum <= 20 * n)
        /\ se_result.signal = "POSITIVE" => PositiveArticles # {}
        /\ "positive_count" \in DOMAIN se_result =>
              /\ se_result.positive_count = Cardinality(PositiveArticles)
              /\ se_result.negative_count = Cardinality(NegativeArticles)
              /\ se_result.neutral_count =
                    n - Cardinality(PositiveArticles) - Cardinality(NegativeArticles)

\* The rule holds of every snapshot the computation of lines 27-65 returned
ThresholdRuleWhenComputed == SentimentComputed => ThresholdRule

\* A batch whose articles are all labelled positive (polarity 0.15) with the
\* aggregate signal NEUTRAL
AllPositiveYetNeutral ==
    /\ SentimentComputed
    /\ se_result.positive_count = Len(se_news)
    /\ se_result.signal = "NEUTRAL"

\* C22: per-article labels use the thresholds +-0.1 while the aggregate
\* signal uses +-0.2 (POSITIVE iff the mean is above 0.2, NEGATIVE iff below
\* -0.2, NEUTRAL otherwise); an aggregate POSITIVE implies at least one
\* article labelled positive.
C22_LabelAndSignalThresholds ==
    (se_pc = "done" /\ se_news # <<>>) => ThresholdRule

\* calculate_risk_score was called on its own and has returned
RiskReturned == risk_args # Unset

\* The four components of the claim, in hundredths of a point, from the
\* arguments of the call
RiskVol ==
    LET df == risk_args.prices
    IN  Min(4000, (IF df.bars < 3 THEN 0 ELSE df.volatility) * 10)

RiskTech == 3000 - 3 * risk_args.technical_score

RiskSent == Max(0, Min(2000, 1000 - 5 * risk_args.sentiment_score))

RiskPos ==
    LET df == risk_args.prices
    IN  IF (df.last_close - df.support) * 100 < 5 * df.last_close THEN 300
        ELSE IF (df.resistance - df.last_close) * 100 < 5 * df.last_close THEN 800
        ELSE 500

RiskArgsInRange ==
    /\ risk_args.technical_score \in 0..1000
    /\ risk_args.sentiment_score \in (0 - 1000)..1000
    /\ risk_args.prices.volatility >= 0

\* C23: calculate_risk_score returns clamp(vol + tech + sent + pos, 0, 100),
\* reported to one decimal, with vol = min(40, volatility * 1000),
\* tech = 30 - 0.3 * technical_score, sent = clamp(10 - 50 * sentiment_score,
\* 0, 20) and pos 3 near support, 8 near resistance, 5 otherwise; for
\* technical_score in [0, 100], sentiment_score in [-1, 1] and volatility >= 0
\* each component lies in its range (0-40, 0-30, 0-20, {3, 5, 8}).
C23_RiskScoreFormula ==
    RiskReturned =>
        LET sum == RiskVol + RiskTech + RiskSent + RiskPos
        IN  /\ risk_result.risk_score =
                  RoundHalfEven(Max(0, Min(10000, sum)), 10)
            /\ risk_result.risk_score \in 0..1000
            /\ risk_result.volatility_risk = RoundHalfEven(RiskVol, 10)
            /\ risk_result.technical_risk = RoundHalfEven(RiskTech, 10)
            /\ risk_result.sentiment_risk = RoundHalfEven(RiskSent, 10)
            /\ risk_result.support_resistance_risk = RiskPos
            /\ RiskArgsInRange =>
                  /\ risk_result.volatility_risk \in 0..400
                  /\ risk_result.technical_risk \in 0..300
                  /\ risk_result.sentiment_risk \in 0..200
                  /\ risk_result.support_resistance_risk \in {300, 500, 800}

\* A call whose unclamped sum is above 100: technical_score -200 alone
\* contributes 90 points
C23_Witness ==
    /\ RiskReturned
    /\ risk_args.technical_score = 0 - 2000
    /\ RiskVol + RiskTech + RiskSent + RiskPos > 10000
    /\ risk_result.risk_score = 1000

\* calculate_support_resistance has returned for a series with a last price
LevelsReturned == sr_return # Unset /\ sr_prices.bars > 0

\* The last price is less than 5% (of itself) above the window's low
WithinFiveOfLow ==
    (sr_prices.last_close - sr_prices.support) * 100 < 5 * sr_prices.last_close

\* The last price is less than 5% (of itself) below the window's high
WithinFiveOfHigh ==
    (sr_prices.resistance - sr_prices.last_close) * 100 < 5 * sr_prices.last_close

\* C24 as stated: near_support iff the price is less than 5% above the
\* window low, near_resistance iff it is less than 5% below the window high,
\* mid_range otherwise; a price at the window high is near_resistance.
C24_PositionIff ==
    LevelsReturned =>
        /\ sr_return.position = "near_support" <=> WithinFiveOfLow
        /\ sr_return.position = "near_resistance" <=> WithinFiveOfHigh
        /\ sr_return.position = "mid_range" <=>
              (~WithinFiveOfLow /\ ~WithinFiveOfHigh)
        /\ sr_prices.last_close = sr_prices.resistance =>
              sr_return.position = "near_resistance"

\* C24, amended: near_support iff the price is less than 5% above the window
\* low; near_resistance iff it is not near support and less than 5% below
\* the window high; mid_range otherwise.  A price at the window high is
\* near_resistance only when the window low is at least 5% below it, and
\* near_support otherwise.
C24_SupportFirst ==
    LevelsReturned =>
        /\ sr_return.position = "near_support" <=> WithinFiveOfLow
        /\ sr_return.position = "near_resistance" <=>
              (~WithinFiveOfLow /\ WithinFiveOfHigh)
        /\ sr_return.position = "mid_range" <=>
              (~WithinFiveOfLow /\ ~WithinFiveOfHigh)
        /\ sr_prices.last_close = sr_prices.resistance =>
              sr_return.position =
                  IF WithinFiveOfLow THEN "near_support" ELSE "near_resistance"

\* A price at the high of a window whose low is 3% below it
C24_Witness ==
    /\ LevelsReturned
    /\ sr_prices.last_close = 100
    /\ sr_prices.resistance = 100
    /\ sr_prices.support = 97
    /\ sr_return.position = "near_support"

\* backtest_strategy returned the record of lines 85-95
BacktestComputed == bt_pc = "done" /\ bt_result.portfolio_values # <<>>

\* floor(initial_capital / close[0]) shares valued at the last close
BenchmarkValue == (initial_capital \div Close[1]) * Close[Len(Close)]

\* C25: the buy-and-hold benchmark buys floor(initial_capital / close[0])
\* shares at bar 0 and values them at the last bar's close, its return being
\* measured against initial_capital (reported to two decimals);
\* outperformed_buy_hold is true iff the strategy's total return strictly
\* exceeds that buy-and-hold return.
C25_BuyHoldBenchmark ==
    BacktestComputed =>
        /\ bt_result.buy_hold_return =
              RoundHalfEven(BenchmarkValue - initial_capital,
                            initial_capital \div 10000)
        /\ bt_result.outperformed_buy_hold <=>
              (Last(portfolio_values) - initial_capital
                   > BenchmarkValue - initial_capital)

\* 3 shares bought at 30000 and held to 40000: the benchmark returns 20%,
\* the strategy that did the same and kept its 10000 of cash returns 30%
C25_Witness ==
    /\ BacktestComputed
    /\ Close[1] = 30000
    /\ Close[Len(Close)] = 40000
    /\ bt_result.buy_hold_return = 2000
    /\ bt_result.total_return = 3000
    /\ bt_result.outperformed_buy_hold

\* C28: a run that makes no trade on a series whose last close is at least
\* its first close never reports outperformed_buy_hold = true.
C28_NoTradeNeverOutperforms ==
    (BacktestComputed /\ trades = <<>> /\ Close[Len(Close)] >= Close[1])
        => ~bt_result.outperformed_buy_hold

\* The shares of the trades of `trades` numbered lo..hi whose action is a
RECURSIVE TradedShares(_, _, _)
TradedShares(lo, hi, a) ==
    IF lo > hi THEN 0
    ELSE (IF trades[lo].action = a THEN trades[lo].shares ELSE 0)
             + TradedShares(lo + 1, hi, a)

\* The index of the last SELL before trade k, 0 when there is none
PreviousSell(k) ==
    LET earlier == {j \in 1..(k - 1) : trades[j].action = "SELL"}
    IN  IF earlier = {} THEN 0 ELSE CHOOSE j \in earlier : \A i \in earlier : i <= j

\* C26: share conservation in the trade log: every SELL trade's share count
\* equals the sum of the share counts of the BUY trades executed since the
\* previous SELL (or since the start), shares held always equals total bought
\* minus total sold, no two SELL trades are adjacent in the log, and the
\* number of SELL trades never exceeds the number of BUY trades.
C26_ShareConservation ==
    /\ \A k \in 1..Len(trades) :
          trades[k].action = "SELL" =>
            trades[k].shares = TradedShares(PreviousSell(k) + 1, k - 1, "BUY")
    /\ shares = TradedShares(1, Len(trades), "BUY")
                    - TradedShares(1, Len(trades), "SELL")
    /\ \A k \in 1..(Len(trades) - 1) :
          ~(trades[k].action = "SELL" /\ trades[k + 1].action = "SELL")
    /\ CountAction(trades, "SELL") <= CountAction(trades, "BUY")

\* Two BUYs in a row (3 shares at 30000, then 2 at 5000 with the remaining
\* cash) followed by one SELL of all 5 shares
C26_Witness ==
    /\ Len(trades) = 3
    /\ trades[1].action = "BUY" /\ trades[1].shares = 3
    /\ trades[2].action = "BUY" /\ trades[2].shares = 2
    /\ trades[3].action = "SELL" /\ trades[3].shares = 5
    /\ shares = 0

\* What a snapshot says; a snapshot without the field says nothing
HasSignal(snapshot, x) == "signal" \in DOMAIN snapshot /\ snapshot.signal = x

HasLevel(snapshot, x) == "risk_level" \in DOMAIN snapshot /\ snapshot.risk_level = x

\* The guards of the claim for a recommendation rec made from the snapshots
\* t, s, r; a risk snapshot without a level stands for the default MODERATE
RecommendationGuarded(rec, t, s, r) ==
    /\ rec \in {"STRONG BUY", "BUY"} =>
          /\ HasSignal(t, "BULLISH")
          /\ ~HasSignal(s, "NEGATIVE")
          /\ "risk_level" \in DOMAIN r => r.risk_level \in {"LOW", "MODERATE"}
          /\ ~HasLevel(r, "HIGH") /\ ~HasLevel(r, "VERY HIGH")
    /\ rec = "SELL" => (HasSignal(t, "BEARISH") /\ HasSignal(s, "NEGATIVE"))

\* C27: STRONG BUY or BUY is returned only when the technical signal is
\* BULLISH, the sentiment signal is not NEGATIVE and the risk level is LOW or
\* MODERATE, never when risk is HIGH or VERY HIGH; SELL is returned only when
\* technical is BEARISH and sentiment is NEGATIVE.  Both for the matrix
\* called on its own and for the record analyze_stock returns.
C27_BuyNeedsAcceptableRisk ==
    /\ rec_args # Unset =>
          RecommendationGuarded(rec_result, rec_args.technical,
                                rec_args.sentiment, rec_args.risk)
    /\ an_pc = "done" =>
          RecommendationGuarded(response.overall_recommendation,
                                response.technical_analysis,
                                response.sentiment_analysis,
                                response.risk_analysis)

\* Bullish technicals and positive sentiment at HIGH risk: no buy
C27_Witness ==
    /\ rec_args # Unset
    /\ rec_args.technical = [signal |-> "BULLISH"]
    /\ rec_args.sentiment = [signal |-> "POSITIVE"]
    /\ rec_args.risk = [risk_level |-> "HIGH"]
    /\ rec_result = "HOLD - High risk"

\* The last call found an entry for its key
EntryFound == fe_return # Unset /\ fe_return.prior # NoEntry

\* How long before the last call that entry was stored, in seconds
EntryAge == fe_return.now - fe_return.prior.cached_time

\* C29: fetch_stock_data serves a cached series for (symbol, period) only if
\* that entry was stored less than cache_duration (300) seconds before the
\* call; for any older entry, at any elapsed time, it performs a fresh fetch
\* (sources tried in order Alltick, Twelve Data, yfinance, then generated
\* fallback) and replaces the cache entry.
C29_CacheFreshness ==
    fe_return # Unset =>
        /\ fe_return.from_cache => (EntryFound /\ EntryAge < cache_duration)
        /\ (EntryFound /\ EntryAge >= cache_duration) =>
              /\ ~fe_return.from_cache
              /\ fe_return.tried # <<>>
              /\ \A k \in 1..Len(fe_return.tried) :
                    fe_return.tried[k] = data_sources[k]
              /\ fe_return.data.fetched_at = fe_return.now
              /\ cache[fe_return.key] =
                    [cached_time |-> fe_return.now, cached_data |-> fe_return.data]

\* analyze_single_stock has returned for a non-empty fetched series
PipelineReturned == pl_pc = "done" /\ pl_price_data.bars > 0

\* C30: when fetch_stock_data returns a non-empty series,
\* analyze_single_stock invokes the orchestrator and returns its mapped
\* analysis; the error placeholder (recommendation 'ERROR', data_source
\* 'error') is returned only if the orchestrator call or the result mapping
\* raised.
C30_OrchestratorInvoked ==
    PipelineReturned =>
        /\ pl_orchestrated
        /\ (pl_results.recommendation = "ERROR" \/ pl_results.data_source = "error")
              => pl_raised \in {"orchestrator", "mapping"}

====
